---------------------------- MODULE Spec2Model ----------------------------
(***************************************************************************)
(* A model of semantic-dom-ssg: the tree-building parser of                *)
(* packages/rust (SemanticDOMParser, driven by the MCP server), the        *)
(* selector-based parser of rust/ (SemanticDOM), its URL validation and    *)
(* its navigation state graph.                                             *)
(*                                                                         *)
(* Text is modelled as a sequence of one-character strings, so that        *)
(* formatting, lower-casing, replacing and prefix tests are computed the   *)
(* way the code computes them.  The markup parser (scraper) is external:   *)
(* an input document is the element tree it hands back, in document order, *)
(* each element carrying its nesting depth below <body>.                   *)
(***************************************************************************)
EXTENDS Integers, Sequences, FiniteSets

VARIABLES
    id_counters,    \* SemanticDOMParser.id_counters of the server's parser
    document,       \* MCPServer.document: None or the loaded SemanticDocument
    response,       \* the response to the last tools/call request
    loaded_html,    \* history: the input that produced `document`
    loaded_call,    \* history: the number of the parse call that produced it
    parse_calls,    \* history: parse calls made on the server's parser
    requests,       \* history: requests served
    running,        \* the server process is alive and reading its input
    line,           \* history: the last line MCPServer::run read
    reply,          \* what run wrote to its output for that line
    sdom_input,     \* the html handed to SemanticDOM::parse
    sdom_config,    \* the Config handed to SemanticDOM::parse
    sdom_result,    \* what SemanticDOM::parse returned
    cert,           \* calls of AgentCertification::certify on it, and the last result
    url_in,         \* the argument of the last validate_url call
    url_out,        \* what validate_url returned
    graph           \* a StateGraph value under construction by a caller

vars == <<id_counters, document, response, loaded_html, loaded_call, parse_calls, requests,
          running, line, reply, sdom_input, sdom_config, sdom_result, cert, url_in, url_out, graph>>

core_vars == <<id_counters, document, response, loaded_html, loaded_call, parse_calls,
               requests, running, line, reply>>
dom_vars == <<sdom_input, sdom_config, sdom_result, cert>>
url_vars == <<url_in, url_out>>
graph_vars == <<graph>>

(***************************************************************************)
(* Bounds of the model.                                                    *)
(***************************************************************************)
MaxElems == 3        \* elements below <body> in one input of the MCP server
MaxNesting == 2      \* nesting depth of those elements
MaxRequests == 2     \* tools/call requests served by one server
MaxLines == 3        \* lines read by MCPServer::run
MaxStates == 3       \* states pushed to a hand-built StateGraph
MaxTransitions == 3  \* transitions held by a hand-built StateGraph
MaxDomElems == 2     \* elements in one input of SemanticDOM::parse
MaxCertifyCalls == 2 \* calls of certify on one SemanticDOM

(***************************************************************************)
(* Text.                                                                   *)
(***************************************************************************)
None == <<"(none)">>      \* Option::None; no text is this one-element sequence

UpperChars == <<"A","B","C","D","E","F","G","H","I","J","K","L","M",
                "N","O","P","Q","R","S","T","U","V","W","X","Y","Z">>
LowerChars == <<"a","b","c","d","e","f","g","h","i","j","k","l","m",
                "n","o","p","q","r","s","t","u","v","w","x","y","z">>
DigitChars == <<"0","1","2","3","4","5","6","7","8","9">>

Range(s) == {s[i] : i \in DOMAIN s}

\* the characters outside ASCII: a lower-case letter of two bytes in UTF-8
MultiByteChars == {"é"}

IsUpper(c) == c \in Range(UpperChars)
IsAlpha(c) == c \in Range(UpperChars) \cup Range(LowerChars) \cup MultiByteChars
IsAlphanumeric(c) == IsAlpha(c) \/ c \in Range(DigitChars)

LowerChar(c) ==
    IF IsUpper(c) THEN LowerChars[CHOOSE i \in DOMAIN UpperChars : UpperChars[i] = c]
    ELSE c

ToLowercase(s) == [i \in DOMAIN s |-> LowerChar(s[i])]

Take(s, n) == IF Len(s) <= n THEN s ELSE SubSeq(s, 1, n)

Utf8Len(c) == IF c \in MultiByteChars THEN 2 ELSE 1

RECURSIVE ByteLen(_)
ByteLen(s) == IF s = <<>> THEN 0 ELSE Utf8Len(Head(s)) + ByteLen(Tail(s))

\* str::is_char_boundary
is_char_boundary(s, n) == \E k \in 0..Len(s) : ByteLen(Take(s, k)) = n

\* what a panic leaves in place of a value; no text is this sequence
Panic == <<"(panic)">>

\* &s[..n]: the text of the first n bytes, a panic when n falls inside a character
ByteSlice(s, n) ==
    IF is_char_boundary(s, n)
    THEN Take(s, CHOOSE k \in 0..Len(s) : ByteLen(Take(s, k)) = n)
    ELSE Panic

Min(a, b) == IF a <= b THEN a ELSE b

StartsWith(s, p) == Len(p) <= Len(s) /\ SubSeq(s, 1, Len(p)) = p

EndsWith(s, p) == Len(p) <= Len(s) /\ SubSeq(s, Len(s) - Len(p) + 1, Len(s)) = p

Contains(s, p) == \E i \in 0..(Len(s) - Len(p)) : SubSeq(s, i + 1, i + Len(p)) = p

RECURSIVE TrimStartMatches(_, _)
TrimStartMatches(s, cs) ==
    IF s # <<>> /\ Head(s) \in cs THEN TrimStartMatches(Tail(s), cs) ELSE s

RECURSIVE TrimEndMatches(_, _)
TrimEndMatches(s, cs) ==
    IF s # <<>> /\ s[Len(s)] \in cs THEN TrimEndMatches(SubSeq(s, 1, Len(s) - 1), cs)
    ELSE s

TrimMatches(s, cs) == TrimEndMatches(TrimStartMatches(s, cs), cs)

Whitespace == {" ", "\t", "\n"}
Trim(s) == TrimMatches(s, Whitespace)

\* str::replace(from, to) for a one-character pattern
RECURSIVE ReplaceChar(_, _, _)
ReplaceChar(s, c, to) ==
    IF s = <<>> THEN <<>>
    ELSE (IF Head(s) = c THEN to ELSE <<Head(s)>>) \o ReplaceChar(Tail(s), c, to)

\* Display of an unsigned integer
RECURSIVE Display(_)
Display(n) ==
    IF n < 10 THEN <<DigitChars[n + 1]>>
    ELSE Display(n \div 10) \o <<DigitChars[(n % 10) + 1]>>

RECURSIVE Concat(_)
Concat(ss) == IF ss = <<>> THEN <<>> ELSE Head(ss) \o Concat(Tail(ss))

\* the members of a finite set of numbers, ascending
RECURSIVE Ascending(_)
Ascending(S) ==
    IF S = {} THEN <<>>
    ELSE LET m == CHOOSE x \in S : \A y \in S : x <= y
         IN <<m>> \o Ascending(S \ {m})

EmptyMap == [k \in {} |-> 0]

(***************************************************************************)
(* f32.  A finite, non-negative f32 is the record [m, e] and stands for    *)
(* m * 2^e, where m = 0 or 2^23 <= m < 2^24.  Sums, products and quotients *)
(* are rounded to the nearest f32, ties to even, as the hardware does.     *)
(* Intermediate numbers stay below 2^31.                                   *)
(***************************************************************************)
RECURSIVE Pow2(_)
Pow2(n) == IF n = 0 THEN 1 ELSE 2 * Pow2(n - 1)

\* the number of binary digits of n
RECURSIVE BitLen(_)
BitLen(n) == IF n = 0 THEN 0 ELSE 1 + BitLen(n \div 2)

F32Zero == [m |-> 0, e |-> 0]

\* a rounded-up mantissa that reached 2^24 moves to the next exponent
F32Carry(r, e) == IF r = 16777216 THEN [m |-> 8388608, e |-> e + 1] ELSE [m |-> r, e |-> e]

\* round kept + rem / (2 * half), with `sticky` for digits lost below rem
F32RoundShift(kept, rem, half, sticky, e) ==
    F32Carry(IF rem > half \/ (rem = half /\ (sticky \/ kept % 2 = 1)) THEN kept + 1
             ELSE kept,
             e)

\* drop the s lowest binary digits of M
F32Drop(M, e, sticky, s) ==
    IF s = 0 THEN [m |-> M, e |-> e]
    ELSE F32RoundShift(M \div Pow2(s), M % Pow2(s), Pow2(s - 1), sticky, e + s)

\* the f32 nearest to M * 2^e (plus a little, if sticky)
F32Round(M, e, sticky) ==
    IF M = 0 THEN F32Zero
    ELSE IF M < 8388608
    THEN [m |-> M * Pow2(24 - BitLen(M)), e |-> e - (24 - BitLen(M))]
    ELSE F32Drop(M, e, sticky, BitLen(M) - 24)

\* n as f32, for n < 2^24
F32FromInt(n) == F32Round(n, 0, FALSE)

F32Shr(m, k) == IF k >= 24 THEN 0 ELSE m \div Pow2(k)
F32Lost(m, k) == IF k >= 24 THEN m # 0 ELSE m % Pow2(k) # 0

\* a + b for a.e >= b.e, d = a.e - b.e, g = min(d, 6)
F32AddAligned(a, b, d, g) ==
    F32Round(a.m * Pow2(g) + F32Shr(b.m, d - g), a.e - g, F32Lost(b.m, d - g))

F32Add(a, b) ==
    IF a.m = 0 THEN b
    ELSE IF b.m = 0 THEN a
    ELSE IF a.e >= b.e
    THEN F32AddAligned(a, b, a.e - b.e, IF a.e - b.e < 6 THEN a.e - b.e ELSE 6)
    ELSE F32AddAligned(b, a, b.e - a.e, IF b.e - a.e < 6 THEN b.e - a.e ELSE 6)

\* the product H * 2^24 + L, L < 2^24
F32MulTop(H, L, e) == F32Round(H * 64 + L \div 262144, e + 18, L % 262144 # 0)

\* the product H * 2^24 + L, L < 2^25
F32MulSum(H, L, e) == F32MulTop(H + L \div 16777216, L % 16777216, e)

\* the product hi * 2^24 + mid * 2^12 + low
F32MulParts(hi, mid, low, e) ==
    F32MulSum(hi + mid \div 4096, (mid % 4096) * 4096 + low, e)

\* the product of ah * 2^12 + al and bh * 2^12 + bl
F32MulLimbs(ah, al, bh, bl, e) == F32MulParts(ah * bh, ah * bl + al * bh, al * bl, e)

F32Mul(a, b) ==
    IF a.m = 0 \/ b.m = 0 THEN F32Zero
    ELSE F32MulLimbs(a.m \div 4096, a.m % 4096, b.m \div 4096, b.m % 4096, a.e + b.e)

\* n more binary digits of the quotient q, remainder r, divisor d
RECURSIVE F32DivBits(_, _, _, _)
F32DivBits(q, r, d, n) ==
    IF n = 0 THEN [q |-> q, r |-> r]
    ELSE IF 2 * r >= d THEN F32DivBits(2 * q + 1, 2 * r - d, d, n - 1)
    ELSE F32DivBits(2 * q, 2 * r, d, n - 1)

F32DivRound(qr, e) == F32Round(qr.q, e, qr.r # 0)

\* a / b for b > 0
F32Div(a, b) ==
    IF a.m = 0 THEN F32Zero
    ELSE F32DivRound(F32DivBits(a.m \div b.m, a.m % b.m, b.m, 26), a.e - b.e - 26)

F32Lt(a, b) ==
    IF b.m = 0 THEN FALSE
    ELSE IF a.m = 0 THEN TRUE
    ELSE a.e < b.e \/ (a.e = b.e /\ a.m < b.m)

F32Ge(a, b) == ~F32Lt(a, b)
F32Gt(a, b) == F32Lt(b, a)
F32Min(a, b) == IF F32Lt(b, a) THEN b ELSE a
F32Max(a, b) == IF F32Lt(a, b) THEN b ELSE a

\* `as u32` of a value below 2^24: the integer part
F32ToU32(a) ==
    IF a.m = 0 THEN 0
    ELSE IF a.e >= 0 THEN a.m * Pow2(a.e)
    ELSE F32Shr(a.m, 0 - a.e)

\* the f32 literals of rust/src/certification.rs
F32_0_1 == [m |-> 13421773, e |-> -27]
F32_0_15 == [m |-> 10066330, e |-> -26]
F32_0_25 == [m |-> 8388608, e |-> -25]
F32_0_30 == [m |-> 10066330, e |-> -25]
F32_0_5 == [m |-> 8388608, e |-> -24]
F32_0_75 == [m |-> 12582912, e |-> -24]
F32_0_8 == [m |-> 13421773, e |-> -24]
F32_1 == [m |-> 8388608, e |-> -23]
F32_80 == [m |-> 10485760, e |-> -17]
F32_100 == [m |-> 13107200, e |-> -17]

(***************************************************************************)
(* String literals of the sources.                                         *)
(***************************************************************************)
S_button == <<"b","u","t","t","o","n">>
S_link == <<"l","i","n","k">>
S_textbox == <<"t","e","x","t","b","o","x">>
S_input == <<"i","n","p","u","t">>
S_listbox == <<"l","i","s","t","b","o","x">>
S_combobox == <<"c","o","m","b","o","b","o","x">>
S_navigation == <<"n","a","v","i","g","a","t","i","o","n">>
S_nav == <<"n","a","v">>
S_main == <<"m","a","i","n">>
S_banner == <<"b","a","n","n","e","r">>
S_header == <<"h","e","a","d","e","r">>
S_contentinfo == <<"c","o","n","t","e","n","t","i","n","f","o">>
S_footer == <<"f","o","o","t","e","r">>
S_complementary == <<"c","o","m","p","l","e","m","e","n","t","a","r","y">>
S_aside == <<"a","s","i","d","e">>
S_form == <<"f","o","r","m">>
S_search == <<"s","e","a","r","c","h">>
S_searchbox == <<"s","e","a","r","c","h","b","o","x">>
S_spinbutton == <<"s","p","i","n","b","u","t","t","o","n">>
S_slider == <<"s","l","i","d","e","r">>
S_checkbox == <<"c","h","e","c","k","b","o","x">>
S_chk == <<"c","h","k">>
S_radio == <<"r","a","d","i","o">>
S_select == <<"s","e","l","e","c","t">>
S_menu == <<"m","e","n","u">>
S_menuitem == <<"m","e","n","u","i","t","e","m">>
S_item == <<"i","t","e","m">>
S_tab == <<"t","a","b">>
S_tabpanel == <<"t","a","b","p","a","n","e","l">>
S_panel == <<"p","a","n","e","l">>
S_dialog == <<"d","i","a","l","o","g">>
S_alert == <<"a","l","e","r","t">>
S_img == <<"i","m","g">>
S_image == <<"i","m","a","g","e">>
S_heading == <<"h","e","a","d","i","n","g">>
S_h == <<"h">>
S_list == <<"l","i","s","t">>
S_listitem == <<"l","i","s","t","i","t","e","m">>
S_li == <<"l","i">>
S_table == <<"t","a","b","l","e">>
S_row == <<"r","o","w">>
S_cell == <<"c","e","l","l">>
S_article == <<"a","r","t","i","c","l","e">>
S_region == <<"r","e","g","i","o","n">>
S_generic == <<"g","e","n","e","r","i","c">>
S_btn == <<"b","t","n">>
S_unnamed == <<"u","n","n","a","m","e","d">>
S_text == <<"t","e","x","t">>
S_submit == <<"s","u","b","m","i","t">>
S_reset == <<"r","e","s","e","t">>
S_number == <<"n","u","m","b","e","r">>
S_range == <<"r","a","n","g","e">>
S_javascript == <<"j","a","v","a","s","c","r","i","p","t">>
S_data == <<"d","a","t","a">>
S_vbscript == <<"v","b","s","c","r","i","p","t">>
S_blob == <<"b","l","o","b">>
S_https == <<"h","t","t","p","s">>
S_http == <<"h","t","t","p">>
S_file == <<"f","i","l","e">>
S_mailto == <<"m","a","i","l","t","o">>
S_ftp == <<"f","t","p">>
S_ws == <<"w","s">>
S_wss == <<"w","s","s">>
S_sdom == <<"s","d","o","m">>
S_state_ == <<"s","t","a","t","e","_">>
S_h_ == <<"h","_">>
S_initial == <<"i","n","i","t","i","a","l">>
S_Initial == <<"I","n","i","t","i","a","l">>
S_navigate == <<"n","a","v","i","g","a","t","e">>
S_a == <<"a">>
S_div == <<"d","i","v">>
S_body == <<"b","o","d","y">>
S_dotpdf == <<".","p","d","f">>
S_dotzip == <<".","z","i","p">>
S_send == <<"s","e","n","d">>
S_save == <<"s","a","v","e">>
S_delete == <<"d","e","l","e","t","e">>
S_remove == <<"r","e","m","o","v","e">>
S_edit == <<"e","d","i","t">>
S_modify == <<"m","o","d","i","f","y">>
S_create == <<"c","r","e","a","t","e">>
S_add == <<"a","d","d">>
S_new == <<"n","e","w">>
S_toggle == <<"t","o","g","g","l","e">>
S_open == <<"o","p","e","n">>
S_close == <<"c","l","o","s","e">>
S_cancel == <<"c","a","n","c","e","l">>
S_expand == <<"e","x","p","a","n","d">>
S_collapse == <<"c","o","l","l","a","p","s","e">>
S_play == <<"p","l","a","y">>
S_pause == <<"p","a","u","s","e">>
S_action == <<"a","c","t","i","o","n">>
S_download == <<"d","o","w","n","l","o","a","d">>
S_email == <<"e","m","a","i","l">>
S_password == <<"p","a","s","s","w","o","r","d">>
S_ellipsis == <<".",".",".">>
S_mailto_colon == <<"m","a","i","l","t","o",":">>
S_tel_colon == <<"t","e","l",":">>
S_phone == <<"p","h","o","n","e">>

(***************************************************************************)
(* The element tree handed back by the markup parser.  An input is         *)
(* [has_body, elems]: elems lists the elements below <body> in document    *)
(* order; elems[i].depth is the nesting depth (a child of <body> has 1).   *)
(* Index 0 stands for <body> itself.  An absent attribute is None.         *)
(***************************************************************************)
El(tag) ==
    [tag |-> tag, depth |-> 1, text |-> <<>>,
     id |-> None, agent_id |-> None, role |-> None, agent_role |-> None,
     aria_label |-> None, agent_label |-> None, title |-> None, alt |-> None,
     placeholder |-> None, type |-> None, href |-> None, name |-> None,
     class |-> None, data_intent |-> None, agent_intent |-> None, download |-> None,
     disabled |-> None, tabindex |-> None, aria_level |-> None, aria_disabled |-> None,
     aria_expanded |-> None, aria_selected |-> None, aria_checked |-> None,
     aria_hidden |-> None, open |-> None]

BodyEl == [El("body") EXCEPT !.depth = 0]

Elem(html, i) == IF i = 0 THEN BodyEl ELSE html.elems[i]

WellNested(es) ==
    \A i \in DOMAIN es :
        /\ es[i].depth >= 1
        /\ es[i].depth <= (IF i = 1 THEN 1 ELSE es[i - 1].depth + 1)

\* the last index of the subtree rooted at element i
SubtreeEnd(html, i) ==
    LET n == Len(html.elems)
        d == Elem(html, i).depth
    IN CHOOSE j \in i..n :
           /\ \A k \in (i + 1)..j : html.elems[k].depth > d
           /\ (j = n \/ html.elems[j + 1].depth <= d)

\* element.children(), in order
ChildElements(html, i) ==
    Ascending({k \in (i + 1)..SubtreeEnd(html, i) :
                   html.elems[k].depth = Elem(html, i).depth + 1})

\* element.text().collect(): the text of the element and of its descendants
TextContent(html, i) ==
    Elem(html, i).text
        \o Concat([k \in 1..(SubtreeEnd(html, i) - i) |-> html.elems[i + k].text])

(***************************************************************************)
(* packages/rust: SemanticId.                                              *)
(***************************************************************************)
\* a mutant of role_to_prefix: the first four characters, whatever their width
role_to_prefix_chars(role) == Take(role, 4)

role_to_prefix(role) ==
    LET r == ToLowercase(role)
    IN CASE r = S_button -> S_btn
         [] r = S_link -> S_link
         [] r \in {S_textbox, S_input} -> S_input
         [] r = S_navigation -> S_nav
         [] r = S_main -> S_main
         [] r \in {S_banner, S_header} -> S_header
         [] r \in {S_contentinfo, S_footer} -> S_footer
         [] r \in {S_complementary, S_aside} -> S_aside
         [] r = S_form -> S_form
         [] r = S_search -> S_search
         [] r = S_checkbox -> S_chk
         [] r = S_radio -> S_radio
         [] r \in {S_listbox, S_combobox} -> S_select
         [] r = S_menu -> S_menu
         [] r = S_menuitem -> S_item
         [] r = S_tab -> S_tab
         [] r = S_tabpanel -> S_panel
         [] r = S_dialog -> S_dialog
         [] r = S_alert -> S_alert
         [] r \in {S_img, S_image} -> S_img
         [] r = S_heading -> S_h
         [] r = S_list -> S_list
         [] r = S_listitem -> S_li
         [] r = S_table -> S_table
         [] r = S_row -> S_row
         [] r = S_cell -> S_cell
         [] OTHER -> ByteSlice(role, Min(4, ByteLen(role)))

sanitize_label(label) ==
    IF label = <<>> THEN S_unnamed
    ELSE Take(TrimMatches([i \in DOMAIN label |->
                              IF IsAlphanumeric(LowerChar(label[i]))
                              THEN LowerChar(label[i]) ELSE "-"],
                          {"-"}),
              32)

\* SemanticId::generate
generate(role, label) ==
    IF role_to_prefix(role) = Panic THEN Panic
    ELSE role_to_prefix(role) \o <<"-">> \o sanitize_label(label)

(***************************************************************************)
(* packages/rust: SemanticDOMParser.                                       *)
(***************************************************************************)
infer_input_role(el) ==
    LET t == IF el.type = None THEN S_text ELSE el.type
    IN CASE t = S_checkbox -> S_checkbox
         [] t = S_radio -> S_radio
         [] t \in {S_submit, S_button, S_reset} -> S_button
         [] t = S_search -> S_searchbox
         [] t = S_number -> S_spinbutton
         [] t = S_range -> S_slider
         [] OTHER -> S_textbox

infer_role(el) ==
    IF el.role # None THEN el.role
    ELSE IF el.agent_role # None THEN el.agent_role
    ELSE CASE el.tag = "button" -> S_button
           [] el.tag = "a" -> S_link
           [] el.tag = "input" -> infer_input_role(el)
           [] el.tag = "textarea" -> S_textbox
           [] el.tag = "select" -> S_listbox
           [] el.tag = "nav" -> S_navigation
           [] el.tag = "main" -> S_main
           [] el.tag = "header" -> S_banner
           [] el.tag = "footer" -> S_contentinfo
           [] el.tag = "aside" -> S_complementary
           [] el.tag = "form" -> S_form
           [] el.tag \in {"h1", "h2", "h3", "h4", "h5", "h6"} -> S_heading
           [] el.tag \in {"ul", "ol"} -> S_list
           [] el.tag = "li" -> S_listitem
           [] el.tag = "table" -> S_table
           [] el.tag = "tr" -> S_row
           [] el.tag \in {"td", "th"} -> S_cell
           [] el.tag = "img" -> S_img
           [] el.tag = "dialog" -> S_dialog
           [] el.tag = "menu" -> S_menu
           [] el.tag = "article" -> S_article
           [] el.tag = "section" /\ el.aria_label # None -> S_region
           [] OTHER -> S_generic

infer_label(html, i) ==
    LET el == Elem(html, i)
        text == Trim(TextContent(html, i))
    IN IF el.aria_label # None THEN el.aria_label
       ELSE IF el.agent_label # None THEN el.agent_label
       ELSE IF el.title # None THEN el.title
       ELSE IF text # <<>> /\ ByteLen(text) <= 100 THEN text
       ELSE IF el.alt # None THEN el.alt
       ELSE IF el.placeholder # None THEN el.placeholder
       ELSE <<>>

\* the intent parse_element computes; the builder of the node is not given it
infer_intent(el, role, label) ==
    IF el.agent_intent # None THEN el.agent_intent
    ELSE IF role = S_button
            /\ (Contains(ToLowercase(label), S_submit) \/ Contains(ToLowercase(label), S_send))
    THEN S_submit
    ELSE IF role = S_button
            /\ (Contains(ToLowercase(label), S_cancel) \/ Contains(ToLowercase(label), S_close))
    THEN S_cancel
    ELSE IF role = S_button
            /\ (Contains(ToLowercase(label), S_delete) \/ Contains(ToLowercase(label), S_remove))
    THEN S_delete
    ELSE IF role = S_button
            /\ (Contains(ToLowercase(label), S_add) \/ Contains(ToLowercase(label), S_create))
    THEN S_create
    ELSE IF role = S_button /\ Contains(ToLowercase(label), S_save) THEN S_save
    ELSE IF role = S_button /\ Contains(ToLowercase(label), S_search) THEN S_search
    ELSE IF role = S_link /\ el.href # None /\ StartsWith(el.href, S_mailto_colon)
    THEN S_email
    ELSE IF role = S_link /\ el.href # None /\ StartsWith(el.href, S_tel_colon)
    THEN S_phone
    ELSE None

S_true == <<"t","r","u","e">>
S_false == <<"f","a","l","s","e">>
S_mixed == <<"m","i","x","e","d">>
S_idle == <<"i","d","l","e">>
S_disabled == <<"d","i","s","a","b","l","e","d">>
S_expanded == <<"e","x","p","a","n","d","e","d">>
S_collapsed == <<"c","o","l","l","a","p","s","e","d">>
S_selected == <<"s","e","l","e","c","t","e","d">>
S_checked == <<"c","h","e","c","k","e","d">>
S_unchecked == <<"u","n","c","h","e","c","k","e","d">>
S_hidden == <<"h","i","d","d","e","n">>

infer_state(el) ==
    IF el.disabled # None \/ el.aria_disabled = S_true THEN S_disabled
    ELSE IF el.aria_expanded = S_true THEN S_expanded
    ELSE IF el.aria_expanded = S_false THEN S_collapsed
    ELSE IF el.aria_selected = S_true THEN S_selected
    ELSE IF el.aria_checked = S_true THEN S_checked
    ELSE IF el.aria_checked = S_false THEN S_unchecked
    ELSE IF el.aria_checked = S_mixed THEN S_mixed
    ELSE IF el.aria_hidden = S_true THEN S_hidden
    ELSE IF el.open # None THEN S_open
    ELSE S_idle

\* the value of a text of decimal digits
RECURSIVE DigitsValue(_, _)
DigitsValue(s, acc) ==
    IF s = <<>> THEN acc
    ELSE DigitsValue(Tail(s),
                     10 * acc + (CHOOSE d \in 0..9 : DigitChars[d + 1] = Head(s)))

\* the value of well-formed digits, unless it is above max
ParseDigits(digits, neg, max, wellformed) ==
    IF ~wellformed THEN [ok |-> FALSE, value |-> 0]
    ELSE IF DigitsValue(digits, 0) > max THEN [ok |-> FALSE, value |-> 0]
    ELSE [ok |-> TRUE,
          value |-> IF neg THEN 0 - DigitsValue(digits, 0) ELSE DigitsValue(digits, 0)]

ParseSigned(digits, neg, max) ==
    ParseDigits(digits, neg, max,
                /\ digits # <<>>
                /\ Len(digits) <= 9
                /\ \A k \in DOMAIN digits : digits[k] \in Range(DigitChars))

\* str::parse for i32 and u8, for texts of up to 9 digits: an optional sign,
\* then digits; .ok is false for anything else and for values above max
ParseInt(s, signed, max) ==
    IF s # <<>> /\ Head(s) = "-" /\ signed THEN ParseSigned(Tail(s), TRUE, max)
    ELSE IF s # <<>> /\ Head(s) = "+" THEN ParseSigned(Tail(s), FALSE, max)
    ELSE ParseSigned(s, FALSE, max)

MaxU8 == 255

MaxI32 == 2147483647

NotNegative(parsed) == parsed.ok /\ parsed.value >= 0

\* tabindex.parse::<i32>() gave a value >= 0
tabindex_not_negative(el) ==
    el.tabindex # None /\ NotNegative(ParseInt(el.tabindex, TRUE, MaxI32))

is_focusable(el) ==
    IF el.tag \in {"a", "button", "input", "select", "textarea"} THEN el.disabled = None
    ELSE tabindex_not_negative(el)

TabOrder(parsed) == IF parsed.ok THEN parsed.value >= 0 ELSE TRUE

is_in_tab_order(el) ==
    IF el.tabindex # None THEN TabOrder(ParseInt(el.tabindex, TRUE, MaxI32)) ELSE TRUE

NoLevel == [some |-> FALSE, value |-> 0]

SomeLevel(n) == [some |-> TRUE, value |-> n]

ParsedLevel(parsed) == IF parsed.ok THEN SomeLevel(parsed.value) ELSE NoLevel

get_heading_level(el) ==
    CASE el.tag = "h1" -> SomeLevel(1)
      [] el.tag = "h2" -> SomeLevel(2)
      [] el.tag = "h3" -> SomeLevel(3)
      [] el.tag = "h4" -> SomeLevel(4)
      [] el.tag = "h5" -> SomeLevel(5)
      [] el.tag = "h6" -> SomeLevel(6)
      [] OTHER -> IF el.aria_level # None
                  THEN ParsedLevel(ParseInt(el.aria_level, FALSE, MaxU8))
                  ELSE NoLevel

build_a11y(el, label) ==
    [name |-> label, focusable |-> is_focusable(el),
     in_tab_order |-> is_focusable(el) /\ is_in_tab_order(el),
     level |-> get_heading_level(el)]

semantic_tags ==
    {"main", "nav", "header", "footer", "aside", "article", "section",
     "button", "a", "input", "select", "textarea", "form",
     "h1", "h2", "h3", "h4", "h5", "h6", "ul", "ol", "li",
     "table", "tr", "td", "th", "img", "dialog", "menu"}

is_semantic_element(el) ==
    \/ el.tag \in semantic_tags
    \/ el.role # None
    \/ el.agent_id # None
    \/ el.agent_role # None
    \/ el.aria_label # None

\* a mutant of generate_unique_id: the suffix is one behind the counter
generate_unique_id_stale(role, label, el, counters) ==
    IF el.agent_id # None THEN [id |-> el.agent_id, counters |-> counters]
    ELSE IF el.id # None THEN [id |-> el.id, counters |-> counters]
    ELSE IF generate(role, label) = Panic THEN [id |-> Panic, counters |-> counters]
    ELSE LET base_id == generate(role, label)
             counter == (IF base_id \in DOMAIN counters THEN counters[base_id] ELSE 0) + 1
         IN [id |-> IF counter = 1 THEN base_id
                    ELSE base_id \o <<"-">> \o Display(counter - 1),
             counters |-> [b \in DOMAIN counters \cup {base_id} |->
                              IF b = base_id THEN counter ELSE counters[b]]]

\* returns the id and the parser's id_counters after the call
generate_unique_id(role, label, el, counters) ==
    IF el.agent_id # None THEN [id |-> el.agent_id, counters |-> counters]
    ELSE IF el.id # None THEN [id |-> el.id, counters |-> counters]
    ELSE IF generate(role, label) = Panic THEN [id |-> Panic, counters |-> counters]
    ELSE LET base_id == generate(role, label)
             counter == (IF base_id \in DOMAIN counters THEN counters[base_id] ELSE 0) + 1
         IN [id |-> IF counter = 1 THEN base_id
                    ELSE base_id \o <<"-">> \o Display(counter),
             counters |-> [b \in DOMAIN counters \cup {base_id} |->
                              IF b = base_id THEN counter ELSE counters[b]]]

\* a mutant of ElementsToParse: what a non-semantic child holds is not looked at
ElementsToParse_children_only(html, i) ==
    SelectSeq(ChildElements(html, i), LAMBDA k : is_semantic_element(html.elems[k]))

\* the elements parse_element recurses into below element i, in order: each
\* semantic child, and the semantic children of each non-semantic child
ElementsToParse(html, i) ==
    LET kids == ChildElements(html, i)
        grand(c) == LET g == ChildElements(html, c)
                    IN SelectSeq(g, LAMBDA k : is_semantic_element(html.elems[k]))
    IN Concat([p \in DOMAIN kids |->
                  IF is_semantic_element(html.elems[kids[p]]) THEN <<kids[p]>>
                  ELSE grand(kids[p])])

\* parse_element returns the node built for element i and the id_counters
\* after it; src is a history field naming the element the node was built from
RECURSIVE parse_element(_, _, _)
RECURSIVE ParseElements(_, _, _)
parse_element(html, i, counters) ==
    LET el == Elem(html, i)
        role == infer_role(el)
        label == infer_label(html, i)
        got == generate_unique_id(role, label, el, counters)
        below == ParseElements(html, ElementsToParse(html, i), got.counters)
    IN [node |-> [id |-> got.id, role |-> role, label |-> label, intent |-> None,
                  state |-> infer_state(el), a11y |-> build_a11y(el, label),
                  children |-> below.nodes, src |-> i],
        counters |-> below.counters]

ParseElements(html, todo, counters) ==
    IF todo = <<>> THEN [nodes |-> <<>>, counters |-> counters]
    ELSE LET first == parse_element(html, Head(todo), counters)
             rest == ParseElements(html, Tail(todo), first.counters)
         IN [nodes |-> <<first.node>> \o rest.nodes, counters |-> rest.counters]

\* collect_all_nodes: the nodes of a tree, parent before children
RECURSIVE collect_all_nodes(_)
collect_all_nodes(node) ==
    <<node>> \o Concat([c \in DOMAIN node.children |-> collect_all_nodes(node.children[c])])

\* SemanticNode::is_interactive
SemanticNode_is_interactive(n) == n.a11y.focusable

\* SemanticNode::is_landmark
SemanticNode_is_landmark(n) ==
    ToLowercase(n.role) \in {S_main, S_navigation, S_banner, S_contentinfo,
                             S_complementary, S_form, S_search, S_region}

\* CertificationLevel::from_score
from_score(score) ==
    IF score >= 100 THEN "Full"
    ELSE IF score >= 75 THEN "Advanced"
    ELSE IF score >= 50 THEN "Standard"
    ELSE IF score >= 25 THEN "Basic"
    ELSE "None"

\* the loop over heading_levels from index i on; the levels are u8: the sum
\* heading_levels[i - 1] + 1 overflows at 255, which a build with overflow
\* checks answers with a panic and a build without them with 0
RECURSIVE heading_scan(_, _)
heading_scan(heading_levels, i) ==
    IF i > Len(heading_levels) THEN [valid |-> TRUE, overflowed |-> FALSE]
    ELSE IF heading_levels[i] > (heading_levels[i - 1] + 1) % (MaxU8 + 1)
         THEN [valid |-> FALSE, overflowed |-> heading_levels[i - 1] = MaxU8]
         ELSE IF heading_levels[i - 1] = MaxU8
              THEN [heading_scan(heading_levels, i + 1) EXCEPT !.overflowed = TRUE]
              ELSE heading_scan(heading_levels, i + 1)

Check(id, passed) == [id |-> id, passed |-> passed]

Failure(id, severity, affected_nodes) ==
    [id |-> id, severity |-> severity, affected_nodes |-> affected_nodes]

severity_deduction(severity) ==
    CASE severity = "Critical" -> 25
      [] severity = "Error" -> 15
      [] severity = "Warning" -> 5
      [] severity = "Info" -> 0

RECURSIVE sum_deductions(_)
sum_deductions(failures) ==
    IF failures = <<>> THEN 0
    ELSE severity_deduction(Head(failures).severity) + sum_deductions(Tail(failures))

IdsOf(nodes) == [k \in DOMAIN nodes |-> nodes[k].id]

Saturating(base_score, deductions) ==
    IF base_score >= deductions THEN base_score - deductions ELSE 0

Certified(score, checks, failures, overflowed) ==
    [level |-> from_score(score), score |-> score, checks |-> checks,
     failures |-> failures, overflowed |-> overflowed]

\* the end of run_certification_checks: the score and the level
certification_of(checks, failures, overflowed) ==
    Certified(Saturating(IF checks = <<>> THEN 0
                         ELSE (Len(SelectSeq(checks, LAMBDA c : c.passed)) * 100)
                                  \div Len(checks),
                         sum_deductions(failures) % (MaxU8 + 1)),
              checks, failures, overflowed)

HeadingLevels(headings) == [k \in DOMAIN headings |-> headings[k].a11y.level.value]

\* the checks and the failures of run_certification_checks, in its order
certification_findings(no_name, has_landmarks, buttons_no_intent, buttons_have_intents,
                       scan, inputs_no_label) ==
    certification_of(
        <<Check("accessible-names", no_name = <<>>),
          Check("has-landmarks", has_landmarks),
          Check("button-intents", buttons_have_intents),
          Check("heading-hierarchy", scan.valid),
          Check("form-labels", inputs_no_label = <<>>)>>,
        (IF no_name = <<>> THEN <<>>
         ELSE <<Failure("accessible-names", "Error", IdsOf(no_name))>>)
        \o (IF has_landmarks THEN <<>>
            ELSE <<Failure("has-landmarks", "Warning", <<>>)>>)
        \o (IF buttons_have_intents THEN <<>>
            ELSE <<Failure("button-intents", "Info", IdsOf(buttons_no_intent))>>)
        \o (IF scan.valid THEN <<>>
            ELSE <<Failure("heading-hierarchy", "Warning", <<>>)>>)
        \o (IF inputs_no_label = <<>> THEN <<>>
            ELSE <<Failure("form-labels", "Error", IdsOf(inputs_no_label))>>),
        scan.overflowed)

buttons_without_intent(buttons) == SelectSeq(buttons, LAMBDA n : n.intent = None)

certification_of_nodes(all_nodes, buttons) ==
    certification_findings(
        SelectSeq(all_nodes, LAMBDA n : SemanticNode_is_interactive(n) /\ n.a11y.name = <<>>),
        Len(SelectSeq(all_nodes, SemanticNode_is_landmark)) > 0,
        buttons_without_intent(buttons),
        Len(buttons_without_intent(buttons)) <= Len(buttons) \div 2,
        heading_scan(HeadingLevels(SelectSeq(all_nodes,
                                             LAMBDA n : n.role = S_heading
                                                        /\ n.a11y.level.some)),
                     2),
        SelectSeq(all_nodes, LAMBDA n : /\ n.role \in {S_textbox, S_searchbox,
                                                        S_listbox, S_combobox}
                                         /\ n.label = <<>>))

certification_of_all(all_nodes) ==
    certification_of_nodes(all_nodes, SelectSeq(all_nodes, LAMBDA n : n.role = S_button))

\* run_certification_checks; .overflowed tells that the heading check's u8
\* sum overflowed, where a build with overflow checks panics
run_certification_checks(root) == certification_of_all(collect_all_nodes(root))

\* SemanticDocumentBuilder::build
build(root, agent_ready) ==
    [root |-> root, agent_ready |-> agent_ready, index |-> EmptyMap, all_nodes |-> <<>>]

\* a node's id was cut inside a character of its role
SlicePanicked(root) == \E n \in Range(collect_all_nodes(root)) : n.id = Panic

parse_certified(r, agent_ready) ==
    [ok |-> TRUE, panicked |-> FALSE, overflowed |-> agent_ready.overflowed,
     doc |-> build(r.node, agent_ready), counters |-> r.counters]

parse_built(r, counters) ==
    IF SlicePanicked(r.node)
    THEN [ok |-> FALSE, panicked |-> TRUE, overflowed |-> FALSE,
          error |-> "panic", counters |-> counters]
    ELSE parse_certified(r, run_certification_checks(r.node))

\* SemanticDOMParser::parse: the result and the parser's id_counters afterwards.
\* .panicked: the call ended in a panic in every build; .overflowed: it ends in
\* a panic in a build with overflow checks, and as given here in one without
parse(html, counters) ==
    IF ~html.has_body
    THEN [ok |-> FALSE, panicked |-> FALSE, overflowed |-> FALSE, error |-> "NoBody",
          counters |-> counters]
    ELSE parse_built(parse_element(html, 0, counters), counters)

\* SemanticDocument::node_count
node_count(doc) == Len(collect_all_nodes(doc.root))

(***************************************************************************)
(* rust/src/security.rs: validate_url.                                     *)
(***************************************************************************)
ALLOWED_PROTOCOLS == {S_https, S_http, S_file}

\* in the order of the source's array
BLOCKED_PROTOCOLS == <<S_javascript, S_data, S_vbscript, S_blob>>

IsSchemeChar(c) == IsAlphanumeric(c) \/ c \in {"+", "-", "."}

\* Url::parse of the url crate (external), as far as validate_url depends on it.
\* It strips leading and trailing blanks and every tab and newline, reads the
\* scheme up to the first ":" and lower-cases it, and fails (a relative URL
\* without a base) when the input does not begin with a scheme.  With a "//"
\* authority the host must hold no forbidden character, and an http(s), ftp or
\* ws(s) URL needs a non-empty host.  to_string() gives the scheme in lower
\* case, the host in lower case, and "/" for the empty path of those schemes.
SpecialSchemes == {S_http, S_https, S_ftp, S_ws, S_wss}
ForbiddenHostChars == {" ", "[", "]", "<", ">", "^", "|", "\\"}

RECURSIVE SchemeLen(_, _)
SchemeLen(s, n) ==
    \* the number of scheme characters of s after its first n, or -1
    IF n >= Len(s) THEN -1
    ELSE IF s[n + 1] = ":" THEN n
    ELSE IF IsSchemeChar(s[n + 1]) THEN SchemeLen(s, n + 1)
    ELSE -1

RECURSIVE SkipSlashes(_)
SkipSlashes(s) == IF s # <<>> /\ Head(s) \in {"/", "\\"} THEN SkipSlashes(Tail(s)) ELSE s

RECURSIVE HostLen(_, _)
HostLen(s, n) ==
    IF n >= Len(s) \/ s[n + 1] \in {"/", "?", "#"} THEN n ELSE HostLen(s, n + 1)

\* the URL after its scheme: `after` is the text behind the scheme's ":" and,
\* if there is one, behind the slashes that open the authority
UrlAfterScheme(scheme, rest, after, hl) ==
    IF scheme = S_file /\ ~StartsWith(rest, <<"/", "/">>)
    THEN [ok |-> TRUE, scheme |-> scheme,
          text |-> scheme \o <<":", "/", "/">>
                     \o (IF StartsWith(rest, <<"/">>) THEN rest ELSE <<"/">> \o rest)]
    ELSE IF scheme \notin SpecialSchemes \cup {S_file} /\ ~StartsWith(rest, <<"/", "/">>)
    THEN [ok |-> TRUE, scheme |-> scheme, text |-> scheme \o <<":">> \o rest]
    ELSE IF Range(SubSeq(after, 1, hl)) \cap ForbiddenHostChars # {}
    THEN [ok |-> FALSE, scheme |-> <<>>, text |-> <<>>]
    ELSE IF scheme \in SpecialSchemes /\ hl = 0
    THEN [ok |-> FALSE, scheme |-> <<>>, text |-> <<>>]
    ELSE [ok |-> TRUE, scheme |-> scheme,
          text |-> scheme \o <<":", "/", "/">> \o ToLowercase(SubSeq(after, 1, hl))
                     \o (IF hl = Len(after) /\ scheme \in SpecialSchemes \cup {S_file}
                         THEN <<"/">> ELSE SubSeq(after, hl + 1, Len(after)))]

UrlAuthority(scheme, rest, after) == UrlAfterScheme(scheme, rest, after, HostLen(after, 0))

UrlRest(scheme, rest) ==
    UrlAuthority(scheme, rest,
                 IF scheme \in SpecialSchemes THEN SkipSlashes(rest)
                 ELSE IF StartsWith(rest, <<"/", "/">>) THEN SubSeq(rest, 3, Len(rest))
                 ELSE rest)

UrlScheme(input, n) ==
    IF n < 1 THEN [ok |-> FALSE, scheme |-> <<>>, text |-> <<>>]
    ELSE UrlRest(ToLowercase(SubSeq(input, 1, n)), SubSeq(input, n + 2, Len(input)))

UrlTrimmed(input) ==
    UrlScheme(input, IF input # <<>> /\ IsAlpha(Head(input)) THEN SchemeLen(input, 0) ELSE -1)

UrlParse(url) ==
    UrlTrimmed(SelectSeq(TrimMatches(url, {" "}), LAMBDA c : c \notin {"\t", "\n"}))

UrlOk(text) == [ok |-> TRUE, value |-> text, protocol |-> <<>>]
InvalidUrlProtocol(protocol) == [ok |-> FALSE, value |-> <<>>, protocol |-> protocol]

\* the Ok arm of validate_url's match
url_parsed(parsed) ==
    IF \E i \in DOMAIN BLOCKED_PROTOCOLS : parsed.scheme = BLOCKED_PROTOCOLS[i]
    THEN InvalidUrlProtocol(parsed.scheme)
    ELSE IF parsed.scheme \notin ALLOWED_PROTOCOLS THEN InvalidUrlProtocol(parsed.scheme)
    ELSE UrlOk(parsed.text)

FirstBlocked(hits) == BLOCKED_PROTOCOLS[CHOOSE i \in hits : \A j \in hits : i <= j]

\* a mutant of url_unparsed: an unparsable URL is allowed without a look at it
url_unparsed_trusting(url) == UrlOk(url)

\* the Err arm of validate_url's match
url_unparsed(url) ==
    IF \E i \in DOMAIN BLOCKED_PROTOCOLS :
           StartsWith(ToLowercase(url), BLOCKED_PROTOCOLS[i] \o <<":">>)
    THEN InvalidUrlProtocol(
             FirstBlocked({i \in DOMAIN BLOCKED_PROTOCOLS :
                              StartsWith(ToLowercase(url), BLOCKED_PROTOCOLS[i] \o <<":">>)}))
    ELSE UrlOk(url)

url_match(url, parsed) == IF parsed.ok THEN url_parsed(parsed) ELSE url_unparsed(url)

validate_url(url) ==
    IF url = <<>> THEN UrlOk(<<>>)
    ELSE IF StartsWith(url, <<"/">>) \/ StartsWith(url, <<".", "/">>)
            \/ StartsWith(url, <<".", ".", "/">>) THEN UrlOk(url)
    ELSE IF StartsWith(url, <<"#">>) THEN UrlOk(url)
    ELSE url_match(url, UrlParse(url))

(***************************************************************************)
(* rust/src/types.rs: the state graph; rust/src/certification.rs: NAV-003. *)
(***************************************************************************)
State(id, name, description, url_pattern, is_initial) ==
    [id |-> id, name |-> name, description |-> description, url_pattern |-> url_pattern,
     is_initial |-> is_initial, is_terminal |-> FALSE]

Transition(from, to, trigger, action) ==
    [from |-> from, to |-> to, trigger |-> trigger, action |-> action, guard |-> None]

StateGraph_new == [states |-> <<>>, transitions |-> <<>>, initial_state |-> None]

RECURSIVE SeenKeys(_, _, _)
SeenKeys(transitions, i, seen) ==
    \* the loop of is_deterministic from transition i on
    IF i > Len(transitions) THEN TRUE
    ELSE LET key == <<transitions[i].from, transitions[i].trigger>>
         IN IF key \in seen THEN FALSE
            ELSE SeenKeys(transitions, i + 1, seen \cup {key})

is_deterministic(g) == SeenKeys(g.transitions, 1, {})

RECURSIVE Visit(_, _, _)
Visit(g, queue, visited) ==
    \* the while loop of reachable_states; the queue is popped at its end
    IF queue = <<>> THEN visited
    ELSE LET state_id == queue[Len(queue)]
             rest == SubSeq(queue, 1, Len(queue) - 1)
         IN IF state_id \in visited THEN Visit(g, rest, visited)
            ELSE LET seen == visited \cup {state_id}
                     pushed == SelectSeq(g.transitions,
                                         LAMBDA t : t.from = state_id /\ t.to \notin seen)
                 IN Visit(g, rest \o [k \in DOMAIN pushed |-> pushed[k].to], seen)

\* a mutant of reachable_states: the targets of a visited state are not followed
reachable_states_shallow(g) ==
    IF g.initial_state = None THEN <<>>
    ELSE SelectSeq(g.states,
                   LAMBDA st : st.id \in {g.initial_state}
                                   \cup {g.transitions[k].to :
                                            k \in {j \in DOMAIN g.transitions :
                                                      g.transitions[j].from = g.initial_state}})

reachable_states(g) ==
    IF g.initial_state = None THEN <<>>
    ELSE LET visited == Visit(g, <<g.initial_state>>, {})
         IN SelectSeq(g.states, LAMBDA st : st.id \in visited)

\* a ValidationCheck; details holds the numbers that its text is formatted from
ValidationCheck(id, name, category, passed, details, weight) ==
    [id |-> id, name |-> name, category |-> category, passed |-> passed,
     details |-> details, weight |-> weight]

NoDetails == <<>>

\* check_reachable_states reads sdom.state_graph only
check_reachable_states(g) ==
    ValidationCheck("NAV-003", "All states reachable", "Navigation",
                    Len(g.states) = 0 \/ Len(reachable_states(g)) = Len(g.states),
                    <<Len(reachable_states(g)), Len(g.states)>>, F32_0_75)

(***************************************************************************)
(* rust/src: SemanticRole, Config, and the selector-based parser           *)
(* SemanticDOM of rust/src/parser.rs.                                      *)
(***************************************************************************)
\* a mutant of is_landmark: only a navigation region is a landmark
is_landmark_navigation_only(role) == role = "Navigation"

is_landmark(role) ==
    role \in {"Navigation", "Main", "Header", "Footer", "Aside", "Search"}

is_interactable(role) ==
    role \in {"Button", "Link", "TextInput", "Checkbox", "Radio", "Select", "Interactive"}

NoIntent == "(none)"

DefaultMaxInputSize == 10 * 1024 * 1024

Config_default ==
    [max_input_size |-> DefaultMaxInputSize, id_prefix |-> S_sdom, max_depth |-> 50,
     exclude_tags |-> {"script", "style", "noscript", "template"},
     include_state_graph |-> TRUE, validate |-> TRUE]

\* the name of an element as text
TagText(tag) ==
    CASE tag = "a" -> S_a
      [] tag = "nav" -> S_nav
      [] tag = "button" -> S_button
      [] tag = "div" -> S_div
      [] tag = "body" -> S_body
      [] tag = "main" -> S_main
      [] tag = "input" -> S_input
      [] tag = "h1" -> <<"h", "1">>
      [] tag = "template" -> <<"t","e","m","p","l","a","t","e">>
      [] tag = "select" -> S_select
      [] OTHER -> [k \in 1..1 |-> tag]

SemanticNode_new(id, label, role, selector) ==
    [id |-> id, label |-> label, role |-> role, intent |-> NoIntent, selector |-> selector,
     accessible_name |-> None, href |-> None, children |-> <<>>, parent |-> None,
     depth |-> 0,
     src |-> 0]      \* history: the position of the element the node was built from

\* one entry of semantic_selectors: a tag, or an attribute with a value, or
\* both ("" for no tag or no attribute, None for any value)
Sel(tag, attr, value, role) == [tag |-> tag, attr |-> attr, value |-> value, role |-> role]

semantic_selectors ==
    <<Sel("nav", "", None, "Navigation"), Sel("main", "", None, "Main"),
      Sel("header", "", None, "Header"), Sel("footer", "", None, "Footer"),
      Sel("aside", "", None, "Aside"), Sel("article", "", None, "Article"),
      Sel("section", "", None, "Section"),
      Sel("", "role", S_navigation, "Navigation"), Sel("", "role", S_main, "Main"),
      Sel("", "role", S_banner, "Header"), Sel("", "role", S_contentinfo, "Footer"),
      Sel("", "role", S_complementary, "Aside"), Sel("", "role", S_search, "Search"),
      Sel("a", "href", None, "Link"), Sel("button", "", None, "Button"),
      Sel("input", "type", S_submit, "Button"), Sel("input", "type", S_button, "Button"),
      Sel("input", "type", S_text, "TextInput"), Sel("input", "type", S_email, "TextInput"),
      Sel("input", "type", S_password, "TextInput"),
      Sel("input", "type", S_search, "TextInput"),
      Sel("input", "type", S_checkbox, "Checkbox"), Sel("input", "type", S_radio, "Radio"),
      Sel("textarea", "", None, "TextInput"), Sel("select", "", None, "Select"),
      Sel("h1", "", None, "Heading"), Sel("h2", "", None, "Heading"),
      Sel("h3", "", None, "Heading"), Sel("h4", "", None, "Heading"),
      Sel("h5", "", None, "Heading"), Sel("h6", "", None, "Heading"),
      Sel("img", "", None, "Image"), Sel("video", "", None, "Video"),
      Sel("audio", "", None, "Audio"), Sel("form", "", None, "Form"),
      Sel("dialog", "", None, "Dialog"), Sel("", "role", S_dialog, "Dialog"),
      Sel("", "role", S_alert, "Alert")>>

\* document.select(&selector) yields the elements el with Matches(sel, el)
Matches(sel, el) ==
    /\ sel.tag = "" \/ el.tag = sel.tag
    /\ sel.attr = "" \/ (el[sel.attr] # None /\ (sel.value = None \/ el[sel.attr] = sel.value))

\* the characters the source escapes, but for the grave accent, which no text
\* of the model holds
CssSpecialChars ==
    {"!", "\"", "#", "$", "%", "&", "'", "(", ")", "*", "+", ",", ".", "/", ":", ";", "<",
     "=", ">", "?", "@", "[", "\\", "]", "^", "{", "|", "}", "~"}

escape_css_identifier(input) ==
    Concat([i \in DOMAIN input |->
               IF input[i] \in CssSpecialChars THEN <<"\\", input[i]>>
               ELSE IF input[i] \in Range(DigitChars) /\ i = 1 THEN <<"\\", "3", input[i], " ">>
               ELSE IF input[i] = "-" /\ i = 1 THEN <<"\\", "-">>
               ELSE <<input[i]>>])

RECURSIVE SplitWhitespace(_)
SplitWhitespace(s) ==
    \* str::split_whitespace as a sequence of words
    IF s = <<>> THEN <<>>
    ELSE IF Head(s) \in Whitespace THEN SplitWhitespace(Tail(s))
    ELSE LET n == CHOOSE k \in 1..Len(s) :
                      /\ \A j \in 1..k : s[j] \notin Whitespace
                      /\ (k = Len(s) \/ s[k + 1] \in Whitespace)
         IN <<SubSeq(s, 1, n)>> \o SplitWhitespace(SubSeq(s, n + 1, Len(s)))

generate_element_id(sdom, tag, element) ==
    IF element.id # None
    THEN [id |-> sdom.config.id_prefix \o <<"_">> \o element.id,
          id_counter |-> sdom.id_counter]
    ELSE [id |-> sdom.config.id_prefix \o <<"_">> \o TagText(tag) \o <<"_">>
                     \o Display(sdom.id_counter + 1),
          id_counter |-> sdom.id_counter + 1]

extract_element_label(html, i) ==
    LET el == html.elems[i]
        text == Trim(TextContent(html, i))
    IN IF el.aria_label # None THEN el.aria_label
       ELSE IF el.title # None THEN el.title
       ELSE IF el.tag = "input" /\ el.placeholder # None THEN el.placeholder
       ELSE IF el.tag = "input" /\ el.name # None THEN el.name
       ELSE IF text # <<>>
       THEN IF ByteLen(text) > 50
            THEN IF ByteSlice(text, 47) = Panic THEN Panic
                 ELSE ByteSlice(text, 47) \o S_ellipsis
            ELSE text
       ELSE IF el.id # None THEN TagText(el.tag) \o <<"#">> \o el.id
       ELSE IF el.class # None /\ SplitWhitespace(el.class) # <<>>
       THEN TagText(el.tag) \o <<".">> \o SplitWhitespace(el.class)[1]
       ELSE TagText(el.tag)

build_element_selector(element) ==
    IF element.id # None
    THEN TagText(element.tag) \o <<"#">> \o escape_css_identifier(element.id)
    ELSE IF element.class = None THEN TagText(element.tag)
    ELSE LET classes == SplitWhitespace(element.class)
         IN TagText(element.tag)
                \o Concat([k \in 1..(IF Len(classes) < 2 THEN Len(classes) ELSE 2) |->
                              <<".">> \o escape_css_identifier(classes[k])])

extract_element_accessible_name(html, i) ==
    LET el == html.elems[i]
        text == Trim(TextContent(html, i))
    IN IF el.aria_label # None THEN el.aria_label
       ELSE IF el.title # None THEN el.title
       ELSE IF el.tag = "img" /\ el.alt # None THEN el.alt
       ELSE IF text # <<>> THEN text
       ELSE None

\* the table of explicit data-intent values
explicit_intent(intent) ==
    CASE intent = S_navigate -> "Navigate"
      [] intent = S_submit -> "Submit"
      [] intent = S_action -> "Action"
      [] intent = S_toggle -> "Toggle"
      [] intent = S_select -> "Select"
      [] intent = S_search -> "Search"
      [] intent = S_play -> "Play"
      [] intent = S_pause -> "Pause"
      [] intent = S_open -> "Open"
      [] intent = S_close -> "Close"
      [] intent = S_expand -> "Expand"
      [] intent = S_collapse -> "Collapse"
      [] intent = S_download -> "Download"
      [] intent = S_delete -> "Delete"
      [] intent = S_edit -> "Edit"
      [] intent = S_create -> "Create"
      [] OTHER -> "Unknown"

\* the keyword groups a button's lower-cased label is scanned for
button_text_intent(text) ==
    IF Contains(text, S_submit) \/ Contains(text, S_send) \/ Contains(text, S_save)
    THEN "Submit"
    ELSE IF Contains(text, S_delete) \/ Contains(text, S_remove) THEN "Delete"
    ELSE IF Contains(text, S_edit) \/ Contains(text, S_modify) THEN "Edit"
    ELSE IF Contains(text, S_create) \/ Contains(text, S_add) \/ Contains(text, S_new)
    THEN "Create"
    ELSE IF Contains(text, S_toggle) THEN "Toggle"
    ELSE IF Contains(text, S_open) THEN "Open"
    ELSE IF Contains(text, S_close) \/ Contains(text, S_cancel) THEN "Close"
    ELSE IF Contains(text, S_expand) THEN "Expand"
    ELSE IF Contains(text, S_collapse) THEN "Collapse"
    ELSE IF Contains(text, S_play) THEN "Play"
    ELSE IF Contains(text, S_pause) THEN "Pause"
    ELSE IF Contains(text, S_search) THEN "Search"
    ELSE "Action"

inferred_intent(el, role, label) ==
    CASE role = "Link" ->
             IF /\ el.href # None
                /\ \/ EndsWith(el.href, S_dotpdf)
                   \/ EndsWith(el.href, S_dotzip)
                   \/ el.download # None
             THEN "Download" ELSE "Navigate"
      [] role = "Button" ->
             IF el.type = S_submit THEN "Submit"
             ELSE button_text_intent(ToLowercase(label))
      [] role \in {"Checkbox", "Radio"} -> "Toggle"
      [] role = "Select" -> "Select"
      [] role = "TextInput" -> IF el.type = S_search THEN "Search" ELSE "Input"
      [] OTHER -> "Unknown"

determine_element_intent(html, i, role) ==
    IF html.elems[i].data_intent # None
    THEN explicit_intent(ToLowercase(html.elems[i].data_intent))
    ELSE inferred_intent(html.elems[i], role, extract_element_label(html, i))

\* a mutant of link_href: the href attribute is kept as written
link_href_unchecked(href, safe_url) == href

\* the href a Link node gets from its attribute and from validate_url's result
link_href(href, safe_url) == IF safe_url.ok THEN safe_url.value ELSE None

\* the part of process_element from SemanticNode::new to the insertion
insert_node(sdom, html, i, role, node_id) ==
    [sdom EXCEPT
        !.landmarks = IF is_landmark(role) THEN Append(@, node_id) ELSE @,
        !.interactables = IF is_interactable(role) THEN Append(@, node_id) ELSE @,
        !.headings = IF role = "Heading" THEN Append(@, node_id) ELSE @,
        !.index =
            [k \in DOMAIN @ \cup {node_id} |->
                IF k # node_id THEN @[k]
                ELSE [SemanticNode_new(node_id, extract_element_label(html, i), role,
                                       build_element_selector(html.elems[i]))
                         EXCEPT !.intent = IF is_interactable(role)
                                           THEN determine_element_intent(html, i, role)
                                           ELSE NoIntent,
                                !.href = IF role = "Link" /\ html.elems[i].href # None
                                         THEN link_href(html.elems[i].href,
                                                        validate_url(html.elems[i].href))
                                         ELSE None,
                                !.accessible_name = extract_element_accessible_name(html, i),
                                !.src = i]]]

\* a mutant of process_generated: the categories are tracked before the index
\* is asked for the id
process_generated_tracked_first(sdom, html, i, role, gen) ==
    IF gen.id \in DOMAIN sdom.index
    THEN [sdom EXCEPT
             !.id_counter = gen.id_counter,
             !.landmarks = IF is_landmark(role) THEN Append(@, gen.id) ELSE @,
             !.interactables = IF is_interactable(role) THEN Append(@, gen.id) ELSE @,
             !.headings = IF role = "Heading" THEN Append(@, gen.id) ELSE @]
    ELSE insert_node([sdom EXCEPT !.id_counter = gen.id_counter], html, i, role, gen.id)

\* the part of process_element that follows generate_element_id
process_generated(sdom, html, i, role, gen) ==
    IF gen.id \in DOMAIN sdom.index THEN [sdom EXCEPT !.id_counter = gen.id_counter]
    ELSE insert_node([sdom EXCEPT !.id_counter = gen.id_counter], html, i, role, gen.id)

process_element(sdom, html, i, role) ==
    IF html.elems[i].tag \in sdom.config.exclude_tags THEN sdom
    ELSE process_generated(sdom, html, i, role,
                           generate_element_id(sdom, html.elems[i].tag, html.elems[i]))

\* the calls of process_element that the loops of parse_semantic_elements
\* make, in order: for each selector entry, its matches in document order
SelectorMatches(html) ==
    Concat([k \in DOMAIN semantic_selectors |->
               SelectSeq([i \in DOMAIN html.elems |->
                             [elem |-> i, role |-> semantic_selectors[k].role, entry |-> k]],
                         LAMBDA m : Matches(semantic_selectors[k], html.elems[m.elem]))])

RECURSIVE ProcessMatches(_, _, _)
ProcessMatches(sdom, html, matches) ==
    IF matches = <<>> THEN sdom
    ELSE ProcessMatches(process_element(sdom, html, Head(matches).elem, Head(matches).role),
                        html, Tail(matches))

parse_semantic_elements(sdom, html) == ProcessMatches(sdom, html, SelectorMatches(html))

S_InitialPageState ==
    <<"I","n","i","t","i","a","l"," ","p","a","g","e"," ","s","t","a","t","e">>

\* a mutant of link_transition: the transition leads to the href as written
link_transition_to_href(state_id, href, link_id) ==
    Transition(S_initial, href, link_id, S_navigate)

\* the transition build_state_graph makes for a new link state
link_transition(state_id, href, link_id) ==
    Transition(S_initial, state_id, link_id, S_navigate)

state_id_of(href) == S_state_ \o ReplaceChar(ReplaceChar(href, "/", <<"_">>), "#", S_h_)

\* the body of build_state_graph's loop for a link with an href
link_state(g, link_id, label, href, state_id) ==
    IF /\ StartsWith(href, <<"/">>) \/ StartsWith(href, <<"#">>)
       /\ \A j \in DOMAIN g.states : g.states[j].id # state_id
    THEN [g EXCEPT !.states = Append(@, State(state_id, label, None, href, FALSE)),
                   !.transitions = Append(@, link_transition(state_id, href, link_id))]
    ELSE g

RECURSIVE LinkStates(_, _, _)
LinkStates(sdom, k, g) ==
    \* the loop of build_state_graph from interactable k on
    IF k > Len(sdom.interactables) THEN g
    ELSE IF sdom.interactables[k] \in DOMAIN sdom.index
            /\ sdom.index[sdom.interactables[k]].href # None
    THEN LinkStates(sdom, k + 1,
                    link_state(g, sdom.interactables[k],
                               sdom.index[sdom.interactables[k]].label,
                               sdom.index[sdom.interactables[k]].href,
                               state_id_of(sdom.index[sdom.interactables[k]].href)))
    ELSE LinkStates(sdom, k + 1, g)

build_state_graph(sdom) ==
    [sdom EXCEPT !.state_graph =
        LinkStates(sdom, 1,
                   [sdom.state_graph EXCEPT
                       !.states = Append(@, State(S_initial, S_Initial, S_InitialPageState,
                                                  <<"/">>, TRUE)),
                       !.initial_state = S_initial])]

\* a mutant of exceeds_max_input_size: an input of exactly the maximum is refused
meets_max_input_size(len, config) == len >= config.max_input_size

exceeds_max_input_size(len, config) == len > config.max_input_size

NoSemanticDOM == [some |-> FALSE]
NoError == [kind |-> "none", max_size |-> 0, actual_size |-> 0]
InputTooLarge(max_size, actual_size) ==
    [kind |-> "InputTooLarge", max_size |-> max_size, actual_size |-> actual_size]

SemanticDOM_new(config) ==
    [some |-> TRUE, index |-> EmptyMap, landmarks |-> <<>>, interactables |-> <<>>,
     headings |-> <<>>, state_graph |-> StateGraph_new, title |-> None, lang |-> None,
     config |-> config, id_counter |-> 0]

\* the call ended in a panic: a label was cut inside a character
PanicError == [kind |-> "panic", max_size |-> 0, actual_size |-> 0]

\* the end of parse, from the state graph on
parse_finish(sdom) ==
    IF \E id \in DOMAIN sdom.index : sdom.index[id].label = Panic
    THEN [ok |-> FALSE, error |-> PanicError, sdom |-> NoSemanticDOM]
    ELSE [ok |-> TRUE, error |-> NoError,
          sdom |-> IF sdom.config.include_state_graph THEN build_state_graph(sdom) ELSE sdom]

\* html.size is html.len(), html.elems the elements of Html::parse_document(html),
\* which in the inputs of the model has neither a title nor a lang attribute
SemanticDOM_parse(html, config) ==
    IF exceeds_max_input_size(html.size, config)
    THEN [ok |-> FALSE, error |-> InputTooLarge(config.max_input_size, html.size),
          sdom |-> NoSemanticDOM]
    ELSE parse_finish(parse_semantic_elements(SemanticDOM_new(config), html))

(***************************************************************************)
(* rust/src/certification.rs: AgentCertification::certify.                 *)
(***************************************************************************)
S_section == <<"s","e","c","t","i","o","n">>
S_textinput == <<"t","e","x","t","i","n","p","u","t">>
S_video == <<"v","i","d","e","o">>
S_audio == <<"a","u","d","i","o">>
S_interactive == <<"i","n","t","e","r","a","c","t","i","v","e">>

\* role.to_string().to_lowercase(): Display of a SemanticRole is its Debug name
role_to_string_lowercase(role) ==
    CASE role = "Navigation" -> S_navigation
      [] role = "Main" -> S_main
      [] role = "Header" -> S_header
      [] role = "Footer" -> S_footer
      [] role = "Aside" -> S_aside
      [] role = "Article" -> S_article
      [] role = "Section" -> S_section
      [] role = "Search" -> S_search
      [] role = "Link" -> S_link
      [] role = "Button" -> S_button
      [] role = "TextInput" -> S_textinput
      [] role = "Checkbox" -> S_checkbox
      [] role = "Radio" -> S_radio
      [] role = "Select" -> S_select
      [] role = "Heading" -> S_heading
      [] role = "Image" -> S_image
      [] role = "Video" -> S_video
      [] role = "Audio" -> S_audio
      [] role = "Form" -> S_form
      [] role = "Dialog" -> S_dialog
      [] role = "Alert" -> S_alert
      [] OTHER -> S_interactive

weight_multiplier(category) ==
    CASE category = "Structure" -> F32_0_30
      [] category = "Accessibility" -> F32_0_30
      [] category = "Navigation" -> F32_0_25
      [] category = "Interoperability" -> F32_0_15

\* usize::max
Max(a, b) == IF a >= b THEN a ELSE b

\* sdom.index.values().filter(p).count()
CountValues(sdom, p(_)) == Cardinality({k \in DOMAIN sdom.index : p(sdom.index[k])})

\* ids.iter().filter_map(|id| sdom.index.get(id)).filter(p).count()
CountListed(sdom, ids, p(_)) ==
    Len(SelectSeq(ids, LAMBDA id : id \in DOMAIN sdom.index /\ p(sdom.index[id])))

\* a as f32 / b as f32
Ratio(a, b) == F32Div(F32FromInt(a), F32FromInt(b))

check_has_landmarks(sdom) ==
    ValidationCheck("STRUCT-001", "Has landmark regions", "Structure",
                    sdom.landmarks # <<>>, <<Len(sdom.landmarks)>>, F32_1)

is_main(n) == n.role = "Main"

check_has_main(sdom) ==
    ValidationCheck("STRUCT-002", "Has main content region", "Structure",
                    CountValues(sdom, is_main) > 0, NoDetails, F32_1)

check_heading_hierarchy(sdom) ==
    ValidationCheck("STRUCT-003", "Has heading structure", "Structure",
                    sdom.headings # <<>>, <<Len(sdom.headings)>>, F32_0_5)

check_unique_ids(sdom) ==
    ValidationCheck("STRUCT-004", "Unique element IDs", "Structure",
                    TRUE, <<Cardinality(DOMAIN sdom.index)>>, F32_0_5)

has_name_or_label(n) == n.accessible_name # None \/ n.label # <<>>

\* the check of a percentage against 80.0
percent_check(id, name, category, with, total, weight) ==
    ValidationCheck(id, name, category,
                    F32Ge(F32Mul(Ratio(with, total), F32_100), F32_80),
                    <<with, total, F32Mul(Ratio(with, total), F32_100)>>, weight)

check_accessible_names(sdom) ==
    percent_check("A11Y-001", "Interactables have accessible names", "Accessibility",
                  CountListed(sdom, sdom.interactables, has_name_or_label),
                  Max(Len(sdom.interactables), 1), F32_1)

is_link(n) == n.role = "Link"
link_with_text(n) == is_link(n) /\ n.label # <<>> /\ n.label # S_a

\* the check of a ratio against 0.8, or of the total against 0
ratio_check(id, name, category, with, total, vacuous, weight) ==
    ValidationCheck(id, name, category,
                    (vacuous /\ total = 0) \/ F32Ge(Ratio(with, total), F32_0_8),
                    <<with, total>>, weight)

check_link_text(sdom) ==
    ratio_check("A11Y-002", "Links have descriptive text", "Accessibility",
                CountValues(sdom, link_with_text), Max(CountValues(sdom, is_link), 1),
                FALSE, F32_0_75)

is_button(n) == n.role = "Button"
button_with_text(n) == is_button(n) /\ n.label # <<>> /\ n.label # S_button

check_button_text(sdom) ==
    ratio_check("A11Y-003", "Buttons have descriptive text", "Accessibility",
                CountValues(sdom, button_with_text), Max(CountValues(sdom, is_button), 1),
                TRUE, F32_0_75)

is_form_input(n) == n.role \in {"TextInput", "Checkbox", "Radio", "Select"}
form_input_with_label(n) == is_form_input(n) /\ has_name_or_label(n)

check_form_labels(sdom) ==
    ratio_check("A11Y-004", "Form inputs have labels", "Accessibility",
                CountValues(sdom, form_input_with_label),
                Max(CountValues(sdom, is_form_input), 1), TRUE, F32_0_5)

is_navigation(n) == n.role = "Navigation"

check_navigation_exists(sdom) ==
    ValidationCheck("NAV-001", "Has navigation landmark", "Navigation",
                    CountValues(sdom, is_navigation) > 0, NoDetails, F32_1)

check_deterministic_fsm(sdom) ==
    ValidationCheck("NAV-002", "State graph is deterministic", "Navigation",
                    is_deterministic(sdom.state_graph),
                    <<Len(sdom.state_graph.states), Len(sdom.state_graph.transitions)>>,
                    F32_1)

has_selector(n) == n.selector # <<>>

check_selectors(sdom) ==
    percent_check("INTEROP-001", "Elements have CSS selectors", "Interoperability",
                  CountValues(sdom, has_selector), Max(Cardinality(DOMAIN sdom.index), 1),
                  F32_1)

has_intent(n) == n.intent # NoIntent

check_intents(sdom) ==
    percent_check("INTEROP-002", "Interactables have intents", "Interoperability",
                  CountListed(sdom, sdom.interactables, has_intent),
                  Max(Len(sdom.interactables), 1), F32_0_75)

\* the checks of certify, in the order it pushes them
certify_checks(sdom) ==
    <<check_has_landmarks(sdom), check_has_main(sdom), check_heading_hierarchy(sdom),
      check_unique_ids(sdom), check_accessible_names(sdom), check_link_text(sdom),
      check_button_text(sdom), check_form_labels(sdom), check_navigation_exists(sdom),
      check_deterministic_fsm(sdom), check_reachable_states(sdom.state_graph),
      check_selectors(sdom), check_intents(sdom)>>

\* the first loop of certify from check k on, for the entry of one category:
\* the weight passed and the weight in total
RECURSIVE category_score(_, _, _, _)
category_score(checks, category, k, entry) ==
    IF k > Len(checks) THEN entry
    ELSE IF checks[k].category # category
    THEN category_score(checks, category, k + 1, entry)
    ELSE category_score(checks, category, k + 1,
                        [passed |-> IF checks[k].passed
                                    THEN F32Add(entry.passed, checks[k].weight)
                                    ELSE entry.passed,
                         total |-> F32Add(entry.total, checks[k].weight)])

\* the body of the second loop of certify
add_category(total_score, entry, category) ==
    IF F32Gt(entry.total, F32Zero)
    THEN F32Add(total_score,
                F32Mul(F32Div(entry.passed, entry.total), weight_multiplier(category)))
    ELSE total_score

\* the second loop of certify; order is the order in which the HashMap
\* category_scores hands out its entries
RECURSIVE weighted_score(_, _, _, _)
weighted_score(checks, order, k, total_score) ==
    IF k > Len(order) THEN total_score
    ELSE weighted_score(checks, order, k + 1,
                        add_category(total_score,
                                     category_score(checks, order[k], 1,
                                                    [passed |-> F32Zero, total |-> F32Zero]),
                                     order[k]))

is_labeled(n) == n.label # <<>> /\ n.label # role_to_string_lowercase(n.role)
has_accessible_name(n) == n.accessible_name # None

\* one addend of calculate_completeness
completeness_part(count, total) == F32Mul(F32_0_25, F32Min(Ratio(count, total), F32_1))

\* max_completeness of calculate_completeness
max_completeness == F32Add(F32Add(F32Add(F32Add(F32Zero, F32_0_25), F32_0_25), F32_0_25),
                           F32_0_25)

calculate_completeness(sdom) ==
    F32Div(F32Add(F32Add(F32Add(F32Add(F32Zero,
                   completeness_part(CountValues(sdom, is_labeled),
                                     Max(Cardinality(DOMAIN sdom.index), 1))),
                   completeness_part(CountValues(sdom, has_selector),
                                     Max(Cardinality(DOMAIN sdom.index), 1))),
                   completeness_part(CountValues(sdom, has_intent),
                                     Max(Len(sdom.interactables), 1))),
                   completeness_part(CountValues(sdom, has_accessible_name),
                                     Max(Cardinality(DOMAIN sdom.index), 1))),
           max_completeness)

\* a mutant of certify_score: the score is not capped
certify_score_uncapped(total_score) == F32ToU32(F32Mul(total_score, F32_100))

\* ((total_score * 100.0).min(100.0).max(0.0)) as u32
certify_score(total_score) ==
    F32ToU32(F32Max(F32Min(F32Mul(total_score, F32_100), F32_100), F32Zero))

\* the match on the score
certify_level(score) ==
    IF 90 <= score /\ score <= 100 THEN "AAA"
    ELSE IF 70 <= score /\ score <= 89 THEN "AA"
    ELSE IF 50 <= score /\ score <= 69 THEN "A"
    ELSE "None"

passed_check(c) == c.passed

\* the end of certify
certify_result(sdom, checks, completeness, score) ==
    [level |-> certify_level(score), score |-> score, checks |-> checks,
     stats |-> [total_checks |-> Len(checks),
                passed_checks |-> Len(SelectSeq(checks, passed_check)),
                landmark_count |-> Len(sdom.landmarks),
                interactable_count |-> Len(sdom.interactables),
                heading_count |-> Len(sdom.headings),
                completeness |-> completeness]]

\* certify from the second loop on
certify_scored(sdom, checks, completeness, order) ==
    certify_result(sdom, checks, completeness,
                   certify_score(F32Add(weighted_score(checks, order, 1, F32Zero),
                                        F32Mul(completeness, F32_0_1))))

\* AgentCertification::certify; order is what the iteration over the HashMap
\* of category scores, whose hasher is seeded afresh for each map, comes to
certify(sdom, order) ==
    certify_scored(sdom, certify_checks(sdom), calculate_completeness(sdom), order)

(***************************************************************************)
(* packages/rust: the MCP server.  It owns one parser and one optional     *)
(* document for its whole life.                                            *)
(***************************************************************************)
NoDocument == [some |-> FALSE]
SomeDocument(doc) == [some |-> TRUE, doc |-> doc]

\* SemanticDocument::query: find_node walks the tree, parent before children
NoNode == [some |-> FALSE]
SomeNode(node) == [some |-> TRUE, node |-> node]

FirstNode(nodes) == IF nodes = <<>> THEN NoNode ELSE SomeNode(Head(nodes))

query(doc, id) ==
    FirstNode(SelectSeq(collect_all_nodes(doc.root), LAMBDA n : n.id = id))

collect_by_predicate(node, predicate(_)) == SelectSeq(collect_all_nodes(node), predicate)

landmarks(doc) == collect_by_predicate(doc.root, SemanticNode_is_landmark)

interactables(doc) == collect_by_predicate(doc.root, SemanticNode_is_interactive)

eq_ignore_ascii_case(a, b) == ToLowercase(a) = ToLowercase(b)

navigate(doc, landmark) ==
    FirstNode(SelectSeq(landmarks(doc),
                        LAMBDA l : \/ eq_ignore_ascii_case(l.role, landmark)
                                   \/ eq_ignore_ascii_case(l.id, landmark)))

StateTransition(from, to, trigger) == [from |-> from, to |-> to, trigger |-> trigger]

transitions_of(role, interactive) ==
    CASE role = S_button ->
             <<StateTransition("idle", "focused", "focus"),
               StateTransition("focused", "idle", "blur"),
               StateTransition("focused", "pressed", "mousedown"),
               StateTransition("pressed", "focused", "mouseup")>>
      [] role \in {S_textbox, S_input} ->
             <<StateTransition("idle", "focused", "focus"),
               StateTransition("focused", "idle", "blur"),
               StateTransition("focused", "editing", "input")>>
      [] role = S_checkbox ->
             <<StateTransition("unchecked", "checked", "click"),
               StateTransition("checked", "unchecked", "click")>>
      [] role = S_link ->
             <<StateTransition("idle", "focused", "focus"),
               StateTransition("focused", "visited", "click")>>
      [] OTHER ->
             IF interactive
             THEN <<StateTransition("idle", "focused", "focus"),
                    StateTransition("focused", "idle", "blur")>>
             ELSE <<>>

\* SSGNode::infer_transitions
infer_transitions(node) ==
    transitions_of(ToLowercase(node.role), SemanticNode_is_interactive(node))

from_semantic_node(node) ==
    [node_id |-> node.id, current_state |-> node.state,
     transitions |-> infer_transitions(node)]

\* the last of the nodes with this id
LastWithId(nodes, id) ==
    CHOOSE k \in DOMAIN nodes :
        /\ nodes[k].id = id
        /\ \A j \in DOMAIN nodes : nodes[j].id = id => j <= k

state_graph_of(nodes) ==
    [id \in {n.id : n \in Range(nodes)} |-> from_semantic_node(nodes[LastWithId(nodes, id)])]

\* SemanticDocument::state_graph: a map from ids to SSGNodes; of the nodes with
\* one id the last one inserted stays
state_graph(doc) ==
    state_graph_of(SelectSeq(collect_all_nodes(doc.root),
                             LAMBDA n : SemanticNode_is_interactive(n) \/ n.state # S_idle))

(***************************************************************************)
(* The tools of the MCP server.  A result is Ok(text) or Err(code,         *)
(* message): code is 0 for Ok, message names the text's form and payload   *)
(* holds what the text is made from.                                       *)
(***************************************************************************)
ToolOk(message, payload) == [code |-> 0, message |-> message, payload |-> payload]
ToolErr(code, message) == [code |-> code, message |-> message, payload |-> <<>>]

NoDocumentLoaded == ToolErr(-32602, "No document loaded")

\* the arguments of a tools/call request; an absent argument is None
NoHtml == [some |-> FALSE]
SomeHtml(html) == [some |-> TRUE, html |-> html]
NoArguments == [html |-> NoHtml, id |-> None, landmark |-> None, filter |-> None]

\* ToonSerializer::serialize_node_string, as far as the server's answers
\* depend on it: the text begins with the node's id, role and label
serialize_node_string(node) == <<node.id, node.role, node.label>>

FoundOr(found, missing, arg) ==
    IF found.some THEN ToolOk("node", serialize_node_string(found.node))
    ELSE ToolOk(missing, arg)

\* a mutant of semantic_query: the argument is looked at before the document
semantic_query_argument_first(current, args) ==
    IF args.id = None THEN ToolErr(-32602, "Missing id")
    ELSE IF ~current.some THEN NoDocumentLoaded
    ELSE FoundOr(query(current.doc, args.id), "Element not found", args.id)

semantic_query(current, args) ==
    IF ~current.some THEN NoDocumentLoaded
    ELSE IF args.id = None THEN ToolErr(-32602, "Missing id")
    ELSE FoundOr(query(current.doc, args.id), "Element not found", args.id)

semantic_navigate(current, args) ==
    IF ~current.some THEN NoDocumentLoaded
    ELSE IF args.landmark = None THEN ToolErr(-32602, "Missing landmark")
    ELSE FoundOr(navigate(current.doc, args.landmark), "Landmark not found", args.landmark)

semantic_list_landmarks(current, args) ==
    IF ~current.some THEN NoDocumentLoaded
    ELSE ToolOk("landmarks", IdsOf(landmarks(current.doc)))

semantic_list_interactables(current, args) ==
    IF ~current.some THEN NoDocumentLoaded
    ELSE ToolOk("interactables",
                IdsOf(SelectSeq(interactables(current.doc),
                                LAMBDA i : \/ args.filter = None
                                           \/ eq_ignore_ascii_case(i.role, args.filter))))

StateNodeOr(ssg, id) ==
    IF id \in DOMAIN ssg THEN ToolOk("state node", ssg[id])
    ELSE ToolOk("State node not found", id)

semantic_state_graph(current, args) ==
    IF ~current.some THEN NoDocumentLoaded
    ELSE IF args.id # None THEN StateNodeOr(state_graph(current.doc), args.id)
    ELSE ToolOk("stateGraph", state_graph(current.doc))

semantic_certification(current, args) ==
    IF ~current.some THEN NoDocumentLoaded
    ELSE ToolOk("certification",
                [level |-> current.doc.agent_ready.level,
                 score |-> current.doc.agent_ready.score,
                 passed |-> IdsOf(SelectSeq(current.doc.agent_ready.checks,
                                            LAMBDA c : c.passed)),
                 failed |-> IdsOf(current.doc.agent_ready.failures)])

ReadTools ==
    {"semantic_query", "semantic_navigate", "semantic_list_landmarks",
     "semantic_list_interactables", "semantic_state_graph", "semantic_certification"}

\* what a handler leaves behind: its result and the server's fields after it;
\* .panicked tells that it ended in a panic instead
Handled(result, current, counters) ==
    [panicked |-> FALSE, result |-> result, document |-> current, counters |-> counters]

Panicked(current, counters) ==
    [panicked |-> TRUE, result |-> ToolErr(0, "panic"), document |-> current,
     counters |-> counters]

tool_parsed(current, counters, r, overflow_checks) ==
    IF r.panicked \/ (r.overflowed /\ overflow_checks) THEN Panicked(current, counters)
    ELSE IF r.ok
    THEN Handled(ToolOk("Document parsed", node_count(r.doc)), SomeDocument(r.doc), r.counters)
    ELSE Handled(ToolErr(-32603, "Parse error"), current, r.counters)

\* a mutant of tool_parse_html: a call without html unloads the document
tool_parse_html_unloading(current, counters, args, overflow_checks) ==
    IF ~args.html.some THEN Handled(ToolErr(-32602, "Missing html"), NoDocument, counters)
    ELSE tool_parsed(current, counters, parse(args.html.html, counters), overflow_checks)

\* handle_tools_call, "parse_html"; overflow_checks tells whether the build
\* checks integer overflow
tool_parse_html(current, counters, args, overflow_checks) ==
    IF ~args.html.some THEN Handled(ToolErr(-32602, "Missing html"), current, counters)
    ELSE tool_parsed(current, counters, parse(args.html.html, counters), overflow_checks)

\* a request's params: absent, or an object with or without a tool name
NoParams == [some |-> FALSE]
Params(name, args) == [some |-> TRUE, name |-> name, arguments |-> args]
NoName == "(none)"

handle_tools_call(current, counters, params, overflow_checks) ==
    IF ~params.some THEN Handled(ToolErr(-32602, "Missing params"), current, counters)
    ELSE IF params.name = NoName
    THEN Handled(ToolErr(-32602, "Missing tool name"), current, counters)
    ELSE CASE params.name = "parse_html" ->
                  tool_parse_html(current, counters, params.arguments, overflow_checks)
           [] params.name = "semantic_query" ->
                  Handled(semantic_query(current, params.arguments), current, counters)
           [] params.name = "semantic_navigate" ->
                  Handled(semantic_navigate(current, params.arguments), current, counters)
           [] params.name = "semantic_list_landmarks" ->
                  Handled(semantic_list_landmarks(current, params.arguments),
                          current, counters)
           [] params.name = "semantic_list_interactables" ->
                  Handled(semantic_list_interactables(current, params.arguments),
                          current, counters)
           [] params.name = "semantic_state_graph" ->
                  Handled(semantic_state_graph(current, params.arguments),
                          current, counters)
           [] params.name = "semantic_certification" ->
                  Handled(semantic_certification(current, params.arguments),
                          current, counters)
           [] OTHER -> Handled(ToolErr(-32601, "Unknown tool"), current, counters)

\* handle_resources_read; params.name stands for the uri
handle_resources_read(current, params) ==
    IF ~current.some THEN NoDocumentLoaded
    ELSE IF ~params.some THEN ToolErr(-32602, "Missing params")
    ELSE IF params.name = NoName THEN ToolErr(-32602, "Missing uri")
    ELSE ToolOk("contents", IdsOf(collect_all_nodes(current.doc.root)))

handle_resources_list(current) ==
    IF current.some
    THEN ToolOk("resources", <<Len(landmarks(current.doc)), Len(interactables(current.doc))>>)
    ELSE ToolOk("resources", <<>>)

\* handle_request: .respond is false for a notification, which gets no response
NoId == "null"

JsonRpcResponse(id, result) == [some |-> TRUE, id |-> id, result |-> result]
NoJsonRpcResponse == [some |-> FALSE]

Answered(h, id) ==
    [panicked |-> h.panicked,
     response |-> IF h.panicked THEN NoJsonRpcResponse ELSE JsonRpcResponse(id, h.result),
     document |-> h.document, counters |-> h.counters]

handle_request(current, counters, request, overflow_checks) ==
    CASE request.method = "initialize" ->
             Answered(Handled(ToolOk("initialize", <<>>), current, counters), request.id)
      [] request.method = "initialized" ->
             [panicked |-> FALSE, response |-> NoJsonRpcResponse,
              document |-> current, counters |-> counters]
      [] request.method = "tools/list" ->
             Answered(Handled(ToolOk("tools", <<>>), current, counters), request.id)
      [] request.method = "tools/call" ->
             Answered(handle_tools_call(current, counters, request.params, overflow_checks),
                      request.id)
      [] request.method = "resources/list" ->
             Answered(Handled(handle_resources_list(current), current, counters),
                      request.id)
      [] request.method = "resources/read" ->
             Answered(Handled(handle_resources_read(current, request.params),
                              current, counters),
                      request.id)
      [] request.method = "prompts/list" ->
             Answered(Handled(ToolOk("prompts", <<>>), current, counters), request.id)
      [] request.method = "shutdown" ->
             Answered(Handled(ToolOk("shutdown", <<>>), current, counters), request.id)
      [] OTHER ->
             Answered(Handled(ToolErr(-32601, "Method not found"), current, counters),
                      request.id)

\* the response to no request yet
NoResponse == ToolErr(0, "none")

\* no line has been read yet
NoLine == [kind |-> "none"]

\* the elements the server's inputs are made of
CoreElements ==
    {[El("button") EXCEPT !.text = <<"O","k">>],
     [El("button") EXCEPT !.text = <<"O","k"," ","2">>],
     [El("button") EXCEPT !.text = <<"G","o">>, !.id = <<"b","t","n","-","o","k">>],
     [El("button") EXCEPT !.agent_id = <<"x","1">>],
     El("div")}

NestedCoreElements ==
    {[e EXCEPT !.depth = d] : e \in CoreElements, d \in 1..MaxNesting}

\* in the inputs of the model only <div> and <nav> have element children
OnlyContainersNest(es) ==
    \A i \in DOMAIN es :
        (i > 1 /\ es[i].depth > es[i - 1].depth) => es[i - 1].tag \in {"div", "nav"}

Htmls ==
    {[has_body |-> FALSE, elems |-> <<>>]}
    \cup {[has_body |-> TRUE, elems |-> es] :
            es \in {f \in UNION {[1..n -> NestedCoreElements] : n \in 0..MaxElems} :
                       WellNested(f) /\ OnlyContainersNest(f)}}

InitCore ==
    /\ id_counters = EmptyMap
    /\ document = NoDocument
    /\ response = NoResponse
    /\ loaded_html = [has_body |-> FALSE, elems |-> <<>>]
    /\ loaded_call = 0
    /\ parse_calls = 0
    /\ requests = 0
    /\ running = TRUE
    /\ line = NoLine
    /\ reply = NoJsonRpcResponse

\* the server's fields and the history after a tools/call was handled; parsed
\* tells that the call handed an html text to the parser
AfterToolsCall(h, parsed, html) ==
    /\ running' = ~h.panicked
    /\ id_counters' = h.counters
    /\ document' = h.document
    /\ response' = h.result
    /\ parse_calls' = IF parsed THEN parse_calls + 1 ELSE parse_calls
    /\ IF parsed /\ ~h.panicked /\ h.result.code = 0
       THEN loaded_html' = html /\ loaded_call' = parse_calls + 1
       ELSE UNCHANGED <<loaded_html, loaded_call>>

\* handle_tools_call, "parse_html" without the html argument
parse_html_missing ==
    /\ running
    /\ requests < MaxRequests
    /\ requests' = requests + 1
    /\ \E overflow_checks \in BOOLEAN :
           AfterToolsCall(handle_tools_call(document, id_counters,
                                            Params("parse_html", NoArguments),
                                            overflow_checks),
                          FALSE, loaded_html)
    /\ UNCHANGED <<line, reply>>

\* handle_tools_call, "parse_html"
parse_html(html) ==
    /\ running
    /\ requests < MaxRequests
    /\ requests' = requests + 1
    /\ \E overflow_checks \in BOOLEAN :
           AfterToolsCall(handle_tools_call(document, id_counters,
                                            Params("parse_html",
                                                   [NoArguments EXCEPT !.html = SomeHtml(html)]),
                                            overflow_checks),
                          TRUE, html)
    /\ UNCHANGED <<line, reply>>

(***************************************************************************)
(* Placeholders of the other components' state.                            *)
(***************************************************************************)
\* no AgentCertification has been computed yet
NoCertification ==
    [level |-> "None", score |-> 0, checks |-> <<>>,
     stats |-> [total_checks |-> 0, passed_checks |-> 0, landmark_count |-> 0,
                interactable_count |-> 0, heading_count |-> 0, completeness |-> F32Zero]]

\* SemanticDOM::parse has not been called yet
InitDomIdle ==
    /\ sdom_input = [size |-> 0, elems |-> <<>>]
    /\ sdom_config = Config_default
    /\ sdom_result = [called |-> FALSE, ok |-> FALSE, error |-> NoError,
                      sdom |-> NoSemanticDOM]
    /\ cert = [calls |-> 0, result |-> NoCertification]

\* no URL has been validated yet
InitUrlIdle ==
    /\ url_in = <<>>
    /\ url_out = [called |-> FALSE, result |-> UrlOk(<<>>)]

\* a new, empty graph
InitGraphIdle ==
    /\ graph = StateGraph_new

(***************************************************************************)
(* The MCP server and its parser.                                          *)
(***************************************************************************)
Init == InitCore /\ InitDomIdle /\ InitUrlIdle /\ InitGraphIdle

Next ==
    \/ parse_html_missing /\ UNCHANGED <<dom_vars, url_vars, graph_vars>>
    \/ \E html \in Htmls : parse_html(html) /\ UNCHANGED <<dom_vars, url_vars, graph_vars>>

Spec == Init /\ [][Next]_vars

(***************************************************************************)
(* MCPServer::run: the server reads its input line by line.                *)
(***************************************************************************)
S_b == <<"b">>
S_m == <<"m">>
S_z == <<"z">>

\* <nav id="n"></nav><main id="m"><button id="b">Ok</button></main>
LandmarkElems ==
    <<[El("nav") EXCEPT !.id = <<"n">>],
      [El("main") EXCEPT !.id = S_m],
      [El("button") EXCEPT !.id = S_b, !.depth = 2, !.text = <<"O","k">>]>>

\* <div role="abcé"></div>: the fifth byte of the role is inside its last character
SplitRoleElems == <<[El("div") EXCEPT !.role = <<"a","b","c","é">>]>>

\* <div role="heading" aria-level="255"></div><h1></h1>
LastLevelElems ==
    <<[El("div") EXCEPT !.role = S_heading, !.aria_level = <<"2","5","5">>],
      El("h1")>>

\* <nav id="n"><div><button id="b">Ok</button><div><button id="c">Go</button>
\* </div></div><button id="d">No</button></nav>
WrapperElems ==
    <<[El("nav") EXCEPT !.id = <<"n">>],
      [El("div") EXCEPT !.depth = 2],
      [El("button") EXCEPT !.id = S_b, !.depth = 3, !.text = <<"O","k">>],
      [El("div") EXCEPT !.depth = 3],
      [El("button") EXCEPT !.id = <<"c">>, !.depth = 4, !.text = <<"G","o">>],
      [El("button") EXCEPT !.id = <<"d">>, !.depth = 2, !.text = <<"N","o">>]>>

\* a text of n two-byte characters
Accents(n) == [k \in 1..n |-> "é"]

\* <button id="b">éé...é</button>, the text having 51 characters in 102 bytes
LongTextElems == <<[El("button") EXCEPT !.id = S_b, !.text = Accents(51)]>>

\* <button>?!</button>
PunctuationElems == <<[El("button") EXCEPT !.text = <<"?", "!">>]>>

\* <a id="l" href="/x">A</a><input id="c" type="checkbox"><input id="t">
\* <div id="e" role="tab" aria-selected="true"></div>
FocusableElems ==
    <<[El("a") EXCEPT !.id = <<"l">>, !.href = <<"/", "x">>, !.text = <<"A">>],
      [El("input") EXCEPT !.id = <<"c">>, !.type = S_checkbox],
      [El("input") EXCEPT !.id = <<"t">>],
      [El("div") EXCEPT !.id = <<"e">>, !.role = S_tab, !.aria_selected = S_true]>>

ServerHtmls ==
    {[has_body |-> FALSE, elems |-> <<>>],
     [has_body |-> TRUE, elems |-> FocusableElems],
     [has_body |-> TRUE, elems |-> PunctuationElems],
     [has_body |-> TRUE, elems |-> LongTextElems],
     [has_body |-> TRUE, elems |-> WrapperElems],
     [has_body |-> TRUE, elems |-> <<>>],
     [has_body |-> TRUE, elems |-> LandmarkElems],
     [has_body |-> TRUE, elems |-> SplitRoleElems],
     [has_body |-> TRUE, elems |-> LastLevelElems]}

ToolCalls ==
    {NoParams, Params(NoName, NoArguments), Params("no_such_tool", NoArguments),
     Params("parse_html", NoArguments),
     Params("semantic_list_landmarks", NoArguments),
     Params("semantic_certification", NoArguments)}
    \cup {Params("parse_html", [NoArguments EXCEPT !.html = SomeHtml(h)]) : h \in ServerHtmls}
    \cup {Params(t, [NoArguments EXCEPT !.id = i]) :
            t \in {"semantic_query", "semantic_state_graph"}, i \in {None, S_b, S_z}}
    \cup {Params("semantic_navigate", [NoArguments EXCEPT !.landmark = l]) :
            l \in {None, S_main, S_z}}
    \cup {Params("semantic_list_interactables", [NoArguments EXCEPT !.filter = f]) :
            f \in {None, S_button}}

RequestIds == {NoId, "1"}

JsonRpcRequest(id, method, params) ==
    [kind |-> "request", id |-> id, method |-> method, params |-> params]

Requests ==
    {JsonRpcRequest(id, "tools/call", params) : id \in RequestIds, params \in ToolCalls}
    \cup {JsonRpcRequest(id, "resources/read", params) :
            id \in RequestIds,
            params \in {NoParams, Params(NoName, NoArguments), Params("uri", NoArguments)}}
    \cup {JsonRpcRequest(id, method, NoParams) :
            id \in RequestIds,
            method \in {"initialize", "initialized", "tools/list", "resources/list",
                        "prompts/list", "shutdown", "no/such/method"}}

\* run: the line could not be read as UTF-8 text; the loop ends and main returns
run_read_error ==
    /\ running
    /\ requests < MaxLines
    /\ requests' = requests + 1
    /\ line' = [kind |-> "not_utf8"]
    /\ reply' = NoJsonRpcResponse
    /\ running' = FALSE
    /\ UNCHANGED <<id_counters, document, response, loaded_html, loaded_call, parse_calls>>

\* run: a line of white space is skipped
run_blank_line ==
    /\ running
    /\ requests < MaxLines
    /\ requests' = requests + 1
    /\ line' = [kind |-> "blank"]
    /\ reply' = NoJsonRpcResponse
    /\ UNCHANGED <<id_counters, document, response, loaded_html, loaded_call, parse_calls,
                   running>>

\* run: the line is not a JSON-RPC request
run_invalid_json ==
    /\ running
    /\ requests < MaxLines
    /\ requests' = requests + 1
    /\ line' = [kind |-> "not_json"]
    /\ reply' = JsonRpcResponse(NoId, ToolErr(-32700, "Parse error"))
    /\ UNCHANGED <<id_counters, document, response, loaded_html, loaded_call, parse_calls,
                   running>>

\* the html a request hands to the parser, if it does
ParsedHtml(request) ==
    IF /\ request.method = "tools/call"
       /\ request.params.some
       /\ request.params.name = "parse_html"
    THEN request.params.arguments.html
    ELSE NoHtml

\* the end of run's loop body: the response, if there is one, is written
run_answered(request, h) ==
    /\ reply' = h.response
    /\ AfterToolsCall([panicked |-> h.panicked,
                       result |-> IF request.method = "tools/call" /\ ~h.panicked
                                  THEN h.response.result ELSE response,
                       document |-> h.document, counters |-> h.counters],
                      ParsedHtml(request).some,
                      IF ParsedHtml(request).some THEN ParsedHtml(request).html
                      ELSE loaded_html)

\* run: the line is a request; handle_request answers it
run_request(request) ==
    /\ running
    /\ requests < MaxLines
    /\ requests' = requests + 1
    /\ line' = request
    /\ \E overflow_checks \in BOOLEAN :
           run_answered(request,
                        handle_request(document, id_counters, request, overflow_checks))

NextServer ==
    \/ run_read_error /\ UNCHANGED <<dom_vars, url_vars, graph_vars>>
    \/ run_blank_line /\ UNCHANGED <<dom_vars, url_vars, graph_vars>>
    \/ run_invalid_json /\ UNCHANGED <<dom_vars, url_vars, graph_vars>>
    \/ \E request \in Requests :
           run_request(request) /\ UNCHANGED <<dom_vars, url_vars, graph_vars>>

SpecServer == Init /\ [][NextServer]_vars

(***************************************************************************)
(* Callers of validate_url.                                                *)
(***************************************************************************)
S_JavaScript == <<"J","a","v","a","S","c","r","i","p","t">>
S_DATA == <<"D","A","T","A">>
S_VBScript == <<"V","B","S","c","r","i","p","t">>
S_Blob == <<"B","l","o","b">>
S_HTTP == <<"H","T","T","P">>
S_HttpS == <<"H","t","t","p","S">>
S_FILE == <<"F","I","L","E">>

UrlLeads == {<<>>, <<" ">>}

UrlSchemes ==
    {S_javascript, S_JavaScript, S_data, S_DATA, S_vbscript, S_VBScript, S_blob, S_Blob,
     S_http, S_HTTP, S_https, S_HttpS, S_file, S_FILE, S_mailto, S_ftp}

UrlRests ==
    {<<>>, <<"x">>, <<"/", "p">>, <<"/", "/">>, <<"/", "/", "h">>,
     <<"/", "/", "H", "/", "p", "#", "f">>, <<"/", "/", "[">>, <<"/", "/", "h", " ", "x">>}

SchemelessUrls ==
    {<<>>, <<"/", "p">>, <<"/", "/", "h", "/", "p">>, <<".", "/", "p">>,
     <<".", ".", "/", "p">>, <<"#", "f">>, <<"p", "/", "q">>, S_javascript,
     <<"x", " ", "y", ":", "z">>, <<"1", "a", ":", "b">>, <<":", "x">>,
     <<"/">> \o S_javascript \o <<":", "x">>, <<"#">> \o S_data \o <<":", "x">>,
     <<".", "/">> \o S_blob \o <<":", "x">>, S_javascript \o <<" ", ":", "x">>,
     <<"j", "a", "v", "a", "\t">> \o <<"s", "c", "r", "i", "p", "t", ":", "x">>}

Urls ==
    SchemelessUrls
        \cup {lead \o scheme \o <<":">> \o rest :
                 lead \in UrlLeads, scheme \in UrlSchemes, rest \in UrlRests}

validate_url_call(url) ==
    /\ url_in' = url
    /\ url_out' = [called |-> TRUE, result |-> validate_url(url)]
    /\ UNCHANGED <<core_vars, dom_vars, graph_vars>>

NextUrl == \E url \in Urls : validate_url_call(url)

SpecUrl == Init /\ [][NextUrl]_vars

(***************************************************************************)
(* A caller that builds a StateGraph through its public fields.            *)
(***************************************************************************)
S_home == <<"h","o","m","e">>
S_about == <<"a","b","o","u","t">>
S_contact == <<"c","o","n","t","a","c","t">>
S_about_link == <<"a","b","o","u","t","-","l","i","n","k">>

GraphStateIds == {S_home, S_about, S_contact}
GraphTriggers == {S_about_link, S_menu}

StateIds(g) == {g.states[k].id : k \in DOMAIN g.states}

push_state(id) ==
    /\ Len(graph.states) < MaxStates
    /\ id \notin StateIds(graph)
    /\ graph' = [graph EXCEPT !.states = Append(@, State(id, id, None, None, id = S_home))]
    /\ UNCHANGED <<core_vars, dom_vars, url_vars>>

push_transition(from, to, trigger) ==
    /\ Len(graph.transitions) < MaxTransitions
    /\ graph' = [graph EXCEPT !.transitions = Append(@, Transition(from, to, trigger, None))]
    /\ UNCHANGED <<core_vars, dom_vars, url_vars>>

remove_transition(i) ==
    /\ i \in DOMAIN graph.transitions
    /\ graph' = [graph EXCEPT !.transitions =
                     SubSeq(@, 1, i - 1) \o SubSeq(@, i + 1, Len(@))]
    /\ UNCHANGED <<core_vars, dom_vars, url_vars>>

set_initial_state(id) ==
    /\ graph.initial_state # id
    /\ graph' = [graph EXCEPT !.initial_state = id]
    /\ UNCHANGED <<core_vars, dom_vars, url_vars>>

NextGraph ==
    \/ \E id \in GraphStateIds : push_state(id)
    \/ \E from \in GraphStateIds, to \in GraphStateIds, trigger \in GraphTriggers :
           push_transition(from, to, trigger)
    \/ \E i \in 1..MaxTransitions : remove_transition(i)
    \/ \E id \in GraphStateIds : set_initial_state(id)

SpecGraph == Init /\ [][NextGraph]_vars

(***************************************************************************)
(* Callers of SemanticDOM::parse.                                          *)
(***************************************************************************)
S_Home == <<"H","o","m","e">>
S_Top == <<"T","o","p">>
S_Bad == <<"B","a","d">>
S_x == <<"x">>

\* the limit of test_input_size_limit
TestMaxInputSize == 100

DomElements ==
    {El("nav"),
     [El("button") EXCEPT !.text = <<"O","k">>],
     [El("a") EXCEPT !.href = <<"/", "a">>, !.text = S_Home],
     [El("a") EXCEPT !.href = <<"#", "a">>, !.text = S_Top],
     [El("a") EXCEPT !.href = S_https \o <<":", "/", "/", "H">>],
     [El("a") EXCEPT !.href = S_javascript \o <<":", "x">>, !.text = S_Bad],
     [El("a") EXCEPT !.href = <<"/", "a">>, !.id = S_x],
     [El("a") EXCEPT !.href = S_JavaScript \o <<":", "/", "/", "[">>, !.id = S_x,
                     !.role = S_navigation]}

NestedDomElements ==
    {[e EXCEPT !.depth = d] : e \in DomElements, d \in 1..MaxNesting}

\* the least html.len() of a text with these elements: "<tag>" for each
RECURSIVE MinLen(_)
MinLen(es) == IF es = <<>> THEN 0 ELSE Len(TagText(Head(es).tag)) + 2 + MinLen(Tail(es))

InputSizes ==
    {0, TestMaxInputSize - 1, TestMaxInputSize, TestMaxInputSize + 1,
     DefaultMaxInputSize, DefaultMaxInputSize + 1}

DomHtmls ==
    {[size |-> n, elems |-> es] :
        n \in InputSizes,
        es \in {f \in UNION {[1..k -> NestedDomElements] : k \in 0..MaxDomElems} :
                   WellNested(f) /\ OnlyContainersNest(f)}}

S_Submit == <<"S","u","b","m","i","t">>

\* <nav><a href="/">Home</a></nav><main><button>Submit</button></main>
NavMainElems ==
    <<El("nav"),
      [El("a") EXCEPT !.depth = 2, !.href = <<"/">>, !.text = S_Home],
      El("main"),
      [El("button") EXCEPT !.depth = 2, !.text = S_Submit]>>

\* <nav></nav><nav></nav><nav>T</nav><a href="/a">Home</a><button>Ok</button>
ThreeNavElems ==
    <<El("nav"), El("nav"), [El("nav") EXCEPT !.text = <<"T">>],
      [El("a") EXCEPT !.href = <<"/", "a">>, !.text = S_Home],
      [El("button") EXCEPT !.text = <<"O","k">>]>>

\* <nav><a href="/">Home</a></nav><main><h1>Top</h1><button>Submit</button>
\* <input type="text" name="x"></main>
NavMainFormElems ==
    <<El("nav"),
      [El("a") EXCEPT !.depth = 2, !.href = <<"/">>, !.text = S_Home],
      El("main"),
      [El("h1") EXCEPT !.depth = 2, !.text = S_Top],
      [El("button") EXCEPT !.depth = 2, !.text = S_Submit],
      [El("input") EXCEPT !.depth = 2, !.type = S_text, !.name = S_x]>>

\* <nav role="search"></nav>
NavSearchElems == <<[El("nav") EXCEPT !.role = S_search]>>

\* <nav id="s" role="search"></nav>
NavSearchIdElems == <<[El("nav") EXCEPT !.role = S_search, !.id = <<"s">>]>>

\* <a href="/_a">A</a><a href="//a">B</a>
TwoTargetsElems ==
    <<[El("a") EXCEPT !.href = <<"/", "_", "a">>, !.text = <<"A">>],
      [El("a") EXCEPT !.href = <<"/", "/", "a">>, !.text = <<"B">>]>>

\* <template><button>Ok</button></template>: the tree of the markup parser
\* keeps what a template holds as the children of the template element
TemplateElems ==
    <<El("template"), [El("button") EXCEPT !.depth = 2, !.text = <<"O","k">>]>>

S_close_save == <<"C","l","o","s","e",","," ","s","a","v","e">>

\* <button>Close, save</button><button>Ok</button><input type="checkbox"><select></select>
\* <h1>T</h1>
ControlsElems ==
    <<[El("button") EXCEPT !.text = S_close_save],
      [El("button") EXCEPT !.text = <<"O","k">>],
      [El("input") EXCEPT !.type = S_checkbox],
      El("select"),
      [El("h1") EXCEPT !.text = <<"T">>]>>

\* a chain of <nav> elements, each the child of the one before
NavChain(n) == [k \in 1..n |-> [El("nav") EXCEPT !.depth = k]]

\* a max_depth that the documents of the model go beyond
ShallowMaxDepth == 1

\* whole documents, with the length of their text
ExampleHtmls ==
    {[size |-> 67, elems |-> NavMainElems],
     [size |-> 74, elems |-> ThreeNavElems],
     [size |-> 107, elems |-> NavMainFormElems],
     [size |-> 25, elems |-> NavSearchElems],
     [size |-> 32, elems |-> NavSearchIdElems],
     [size |-> 40, elems |-> TwoTargetsElems],
     [size |-> 42, elems |-> TemplateElems],
     [size |-> 89, elems |-> ControlsElems],
     [size |-> 11 * (ShallowMaxDepth + 2), elems |-> NavChain(ShallowMaxDepth + 2)]}

Configs ==
    {[Config_default EXCEPT !.max_input_size = m, !.include_state_graph = g] :
        m \in {TestMaxInputSize, DefaultMaxInputSize}, g \in BOOLEAN}
    \cup {[Config_default EXCEPT !.exclude_tags = {"nav"}],
          [Config_default EXCEPT !.max_depth = ShallowMaxDepth]}

Returned(r) == [called |-> TRUE, ok |-> r.ok, error |-> r.error, sdom |-> r.sdom]

\* parse builds a SemanticDOM of its own from its arguments alone, so one call
\* in a behaviour stands for every call
SemanticDOM_parse_call(html, config) ==
    /\ ~sdom_result.called
    /\ html.size >= MinLen(html.elems)
    /\ sdom_input' = html
    /\ sdom_config' = config
    /\ sdom_result' = Returned(SemanticDOM_parse(html, config))
    /\ UNCHANGED <<cert, core_vars, url_vars, graph_vars>>

NextDom ==
    \E html \in DomHtmls \cup ExampleHtmls, config \in Configs :
        SemanticDOM_parse_call(html, config)

SpecDom == Init /\ [][NextDom]_vars

(***************************************************************************)
(* Callers of SemanticDOM::parse that certify what they got.               *)
(***************************************************************************)
Categories == {"Structure", "Accessibility", "Navigation", "Interoperability"}

\* the orders in which a HashMap of the four categories can hand them out
CategoryOrders ==
    {o \in [1..4 -> Categories] : \A i, j \in 1..4 : o[i] = o[j] => i = j}

\* a caller certifies the SemanticDOM it got from parse
certify_call(order) ==
    /\ sdom_result.called
    /\ sdom_result.ok
    /\ cert.calls < MaxCertifyCalls
    /\ cert' = [calls |-> cert.calls + 1, result |-> certify(sdom_result.sdom, order)]
    /\ UNCHANGED <<sdom_input, sdom_config, sdom_result, core_vars, url_vars, graph_vars>>

CertHtmls == {h \in DomHtmls : h.size = TestMaxInputSize - 1} \cup ExampleHtmls

CertConfigs == {[Config_default EXCEPT !.include_state_graph = g] : g \in BOOLEAN}

NextCert ==
    \/ \E html \in CertHtmls, config \in CertConfigs : SemanticDOM_parse_call(html, config)
    \/ \E order \in CategoryOrders : certify_call(order)

SpecCert == Init /\ [][NextCert]_vars

(***************************************************************************)
(* Properties of the MCP server's parser (specification Spec).             *)
(***************************************************************************)
LoadedNodes == collect_all_nodes(document.doc.root)

\* C1: in every loaded document the id->node index agrees with the tree: every
\* id of the index is the id of a node reachable from the root, and every node
\* reachable from the root has an entry in the index.
C1_IndexAgreesWithTree ==
    document.some =>
        DOMAIN document.doc.index = {LoadedNodes[p].id : p \in DOMAIN LoadedNodes}

\* C2: within the document built by one parse call no two nodes reachable from
\* the root have the same SemanticId.
C2_IdsUniqueInDocument ==
    document.some =>
        \A p, q \in DOMAIN LoadedNodes :
            p # q => LoadedNodes[p].id # LoadedNodes[q].id

\* the nodes, by position in document order, whose element has neither a
\* data-agent-id nor an id attribute
GeneratedPositions ==
    {p \in DOMAIN LoadedNodes :
        /\ Elem(loaded_html, LoadedNodes[p].src).agent_id = None
        /\ Elem(loaded_html, LoadedNodes[p].src).id = None}

BaseIdAt(p) == generate(LoadedNodes[p].role, LoadedNodes[p].label)

\* how many generated nodes up to and including position p have p's base id
RankAt(p) == Cardinality({q \in GeneratedPositions : q <= p /\ BaseIdAt(q) = BaseIdAt(p)})

\* C3: in the document of the first parse call of a fresh parser, the N elements
\* without vendor or native id that generate the same base id get N distinct
\* ids: the first the base id, the k-th the base id followed by "-k", in
\* document order.
C3_SameBaseIdsSuffixedInOrder ==
    (document.some /\ loaded_call = 1) =>
        /\ \A p \in GeneratedPositions :
               LoadedNodes[p].id =
                   IF RankAt(p) = 1 THEN BaseIdAt(p)
                   ELSE BaseIdAt(p) \o <<"-">> \o Display(RankAt(p))
        /\ \A p, q \in GeneratedPositions :
               (p # q /\ BaseIdAt(p) = BaseIdAt(q)) => LoadedNodes[p].id # LoadedNodes[q].id

\* three elements with the same base id were parsed by the fresh parser
C3_Witness ==
    /\ document.some
    /\ loaded_call = 1
    /\ \E p \in GeneratedPositions :
           /\ RankAt(p) = 3
           /\ LoadedNodes[p].id = S_btn \o <<"-","o","k","-","3">>

\* C4: the ids of every loaded document are those the same input gets from a
\* fresh parser, whatever parse calls the server's parser served before.
C4_IdsAsFromFreshParser ==
    document.some =>
        LET fresh == collect_all_nodes(parse(loaded_html, EmptyMap).doc.root)
        IN [p \in DOMAIN LoadedNodes |-> LoadedNodes[p].id]
               = [p \in DOMAIN fresh |-> fresh[p].id]


(***************************************************************************)
(* Properties of validate_url (specification SpecUrl).                     *)
(***************************************************************************)
\* the URL begins with the scheme s, in any letter case: a letter, then
\* letters, digits, "+", "-" or ".", up to the first ":"
HasScheme(url, s) ==
    \E n \in 1..(Len(url) - 1) :
        /\ url[n + 1] = ":"
        /\ IsAlpha(url[1])
        /\ \A i \in 1..n : IsSchemeChar(url[i])
        /\ ToLowercase(SubSeq(url, 1, n)) = s

\* C6: validate_url fails with InvalidUrlProtocol for every URL whose scheme
\* is javascript, data, vbscript or blob, in any letter case, and succeeds for
\* every http, https or file URL, for every URL that starts with "/", "./",
\* "../" or "#", and for the empty string.
C6_BlockedRejectedAllowedAccepted ==
    url_out.called =>
        LET r == url_out.result
        IN /\ \A i \in DOMAIN BLOCKED_PROTOCOLS :
                  HasScheme(url_in, BLOCKED_PROTOCOLS[i])
                      => r = InvalidUrlProtocol(BLOCKED_PROTOCOLS[i])
           /\ (\E a \in ALLOWED_PROTOCOLS : HasScheme(url_in, a)) => r.ok
           /\ (\/ StartsWith(url_in, <<"/">>)
               \/ StartsWith(url_in, <<".", "/">>)
               \/ StartsWith(url_in, <<".", ".", "/">>)
               \/ StartsWith(url_in, <<"#">>)) => r = UrlOk(url_in)
           /\ url_in = <<>> => r = UrlOk(<<>>)

\* a blocked scheme in mixed case, in a URL that Url::parse cannot read
C6_Witness ==
    /\ url_out.called
    /\ HasScheme(url_in, S_javascript)
    /\ url_in # ToLowercase(url_in)
    /\ ~UrlParse(url_in).ok
    /\ ~url_out.result.ok

(***************************************************************************)
(* Properties of the state graph (specification SpecGraph).                *)
(***************************************************************************)
\* two transitions of g with one (from, trigger) key and different targets
Ambiguous(g) ==
    \E i, j \in DOMAIN g.transitions :
        /\ g.transitions[i].from = g.transitions[j].from
        /\ g.transitions[i].trigger = g.transitions[j].trigger
        /\ g.transitions[i].to # g.transitions[j].to

\* C8: is_deterministic is true exactly when no two transitions share a
\* (from, trigger) key with different targets.
C8_DeterministicIffNoAmbiguity == is_deterministic(graph) <=> ~Ambiguous(graph)

\* id is the initial state or the end of a chain of transitions that starts there
ReachableId(g, id) ==
    /\ g.initial_state # None
    /\ \/ id = g.initial_state
       \/ \E n \in 1..Len(g.transitions) :
              \E p \in [1..n -> DOMAIN g.transitions] :
                  /\ g.transitions[p[1]].from = g.initial_state
                  /\ \A k \in 1..(n - 1) : g.transitions[p[k + 1]].from = g.transitions[p[k]].to
                  /\ g.transitions[p[n]].to = id

ReachableExact(g) ==
    reachable_states(g) = SelectSeq(g.states, LAMBDA st : ReachableId(g, st.id))

Nav003Exact(g) ==
    check_reachable_states(g).passed
        <=> (g.states = <<>> \/ \A k \in DOMAIN g.states : ReachableId(g, g.states[k].id))

\* the step appends one state that is not the initial state and that no
\* transition leads to
OrphanAdded ==
    /\ graph'.transitions = graph.transitions
    /\ graph'.initial_state = graph.initial_state
    /\ Len(graph'.states) = Len(graph.states) + 1
    /\ SubSeq(graph'.states, 1, Len(graph.states)) = graph.states
    /\ LET st == graph'.states[Len(graph'.states)]
       IN /\ st.id # graph.initial_state
          /\ \A k \in DOMAIN graph.transitions : graph.transitions[k].to # st.id

\* the step appends one state that no transition leads to
StateWithoutIncomingAdded ==
    /\ graph'.transitions = graph.transitions
    /\ graph'.initial_state = graph.initial_state
    /\ Len(graph'.states) = Len(graph.states) + 1
    /\ SubSeq(graph'.states, 1, Len(graph.states)) = graph.states
    /\ \A k \in DOMAIN graph.transitions :
           graph.transitions[k].to # graph'.states[Len(graph'.states)].id

\* C9 as stated: adding any state that no transition leads to makes NAV-003 fail.
C9_StateWithoutIncomingFails ==
    [][StateWithoutIncomingAdded => ~check_reachable_states(graph').passed]_vars

\* C9: reachable_states returns exactly the states reachable from the initial
\* state along transitions, the initial state included; NAV-003 passes exactly
\* when every state is reachable or there is no state; and adding a state that
\* is not the initial state and that no transition leads to makes NAV-003 fail.
C9_ReachableStatesExact ==
    /\ [](ReachableExact(graph) /\ Nav003Exact(graph))
    /\ [][OrphanAdded => ~check_reachable_states(graph').passed]_vars

\* two states on a cycle through the initial state are reached, and a third
\* state that no transition leads to makes NAV-003 fail
C9_Witness ==
    /\ Len(graph.states) = 3
    /\ graph.initial_state = graph.states[1].id
    /\ \E i, j \in DOMAIN graph.transitions :
           /\ graph.transitions[i].from = graph.initial_state
           /\ graph.transitions[i].to = graph.states[2].id
           /\ graph.transitions[j].from = graph.states[2].id
           /\ graph.transitions[j].to = graph.initial_state
    /\ \A k \in DOMAIN graph.transitions : graph.transitions[k].to # graph.states[3].id
    /\ Len(reachable_states(graph)) = 2
    /\ ~check_reachable_states(graph).passed

(***************************************************************************)
(* Properties of SemanticDOM::parse (specification SpecDom).               *)
(***************************************************************************)
\* C5: parse returns Err(InputTooLarge) and no SemanticDOM whenever the input
\* is longer than config.max_input_size, and an input of at most that length
\* is never refused for its size.
C5_InputTooLargeIffOverLimit ==
    sdom_result.called =>
        IF sdom_input.size > sdom_config.max_input_size
        THEN /\ ~sdom_result.ok
             /\ sdom_result.error = InputTooLarge(sdom_config.max_input_size, sdom_input.size)
             /\ sdom_result.sdom = NoSemanticDOM
        ELSE /\ sdom_result.ok
             /\ sdom_result.error = NoError
             /\ sdom_result.sdom.some

\* an input with elements, one byte over the limit, is refused
C5_Witness ==
    /\ sdom_result.called
    /\ sdom_input.elems # <<>>
    /\ sdom_input.size = sdom_config.max_input_size + 1
    /\ sdom_result.error.kind = "InputTooLarge"
    /\ ~sdom_result.sdom.some

\* the links of the input whose href validate_url refuses
BadLinks(html) ==
    {i \in DOMAIN html.elems :
        /\ html.elems[i].tag = "a"
        /\ html.elems[i].href # None
        /\ ~validate_url(html.elems[i].href).ok}

\* the input with the href of every such link emptied
Harmless(html) ==
    [html EXCEPT !.elems = [i \in DOMAIN @ |->
                               IF i \in BadLinks(html) THEN [@[i] EXCEPT !.href = <<>>]
                               ELSE @[i]]]

\* the node but for the two fields that are computed from the href
WithoutHref(node) == [node EXCEPT !.href = None, !.intent = NoIntent]

C10_StateGraphWellFormed ==
    sdom_result.ok =>
        LET g == sdom_result.sdom.state_graph
        IN /\ \A k \in DOMAIN g.transitions :
                  /\ g.transitions[k].from \in StateIds(g)
                  /\ g.transitions[k].to \in StateIds(g)
           /\ g.states # <<>> =>
                  /\ g.initial_state \in StateIds(g)
                  /\ \E k \in DOMAIN g.states :
                         /\ g.states[k].id = g.initial_state
                         /\ \A j \in DOMAIN g.states : g.states[j].is_initial <=> j = k

\* a graph with the initial state and two link states
C10_Witness ==
    /\ sdom_result.ok
    /\ Len(sdom_result.sdom.state_graph.states) = 3
    /\ Len(sdom_result.sdom.state_graph.transitions) = 2
(***************************************************************************)
(* Properties of certified documents (specification SpecCert).             *)
(***************************************************************************)
NavMainParsed == sdom_result.called /\ sdom_result.ok /\ sdom_input.elems = NavMainElems

\* the node listed at position k of a category list
Listed(ids, k) == sdom_result.sdom.index[ids[k]]

CheckOf(id) ==
    LET k == CHOOSE j \in DOMAIN cert.result.checks : cert.result.checks[j].id = id
    IN cert.result.checks[k]

NavMainInteractables ==
    /\ Len(sdom_result.sdom.interactables) = 2
    /\ Listed(sdom_result.sdom.interactables, 1).role = "Link"
    /\ Listed(sdom_result.sdom.interactables, 1).src = 2
    /\ Listed(sdom_result.sdom.interactables, 2).role = "Button"
    /\ Listed(sdom_result.sdom.interactables, 2).intent = "Submit"
    /\ Listed(sdom_result.sdom.interactables, 2).src = 4

NavMainChecksPass ==
    cert.calls > 0 => CheckOf("STRUCT-001").passed /\ CheckOf("NAV-001").passed

\* C11 as stated: for <nav><a href="/">Home</a></nav><main><button>Submit
\* </button></main> the document has exactly one landmark, the nav, exactly
\* two interactables, the link and the button with intent submit, and the
\* checks "has landmark regions" and "navigation exists" pass
C11_NavMainOneLandmark ==
    NavMainParsed =>
        /\ Len(sdom_result.sdom.landmarks) = 1
        /\ Listed(sdom_result.sdom.landmarks, 1).role = "Navigation"
        /\ NavMainInteractables
        /\ NavMainChecksPass

\* C11, amended: for <nav><a href="/">Home</a></nav><main><button>Submit
\* </button></main> the document has exactly two landmarks, the nav with role
\* navigation and the main with role main, exactly two interactables, the
\* link with role link and the button with role button and intent submit,
\* and the checks "has landmark regions" and "navigation exists" pass
C11_NavMainTwoLandmarks ==
    NavMainParsed =>
        /\ Len(sdom_result.sdom.landmarks) = 2
        /\ Listed(sdom_result.sdom.landmarks, 1).role = "Navigation"
        /\ Listed(sdom_result.sdom.landmarks, 1).src = 1
        /\ Listed(sdom_result.sdom.landmarks, 2).role = "Main"
        /\ Listed(sdom_result.sdom.landmarks, 2).src = 3
        /\ NavMainInteractables
        /\ NavMainChecksPass

C11_Witness == NavMainParsed /\ cert.calls > 0

\* C12: certify yields a score between 0 and 100, and the level follows from
\* the score alone: AAA iff score >= 90, AA iff 70 <= score <= 89, A iff
\* 50 <= score <= 69, None iff score < 50
C12_ScoreBoundedLevelByScore ==
    cert.calls > 0 =>
        /\ cert.result.score \in 0..100
        /\ cert.result.level = "AAA" <=> cert.result.score >= 90
        /\ cert.result.level = "AA" <=> cert.result.score \in 70..89
        /\ cert.result.level = "A" <=> cert.result.score \in 50..69
        /\ cert.result.level = "None" <=> cert.result.score < 50

\* a document whose weighted score and completeness bonus exceed 1.0
C12_Witness ==
    /\ cert.calls > 0
    /\ sdom_input.elems = NavMainFormElems
    /\ cert.result.stats.passed_checks = 13
    /\ cert.result.score = 100
    /\ cert.result.level = "AAA"

\* C13: a check that measures a ratio over a set of elements passes when the
\* set is empty: without buttons "Buttons have descriptive text" passes,
\* without links "Links have descriptive text" passes, without form inputs
\* "Form inputs have labels" passes, and without interactables "Interactables
\* have accessible names" and "Interactables have intents" pass
C13_EmptySetsPassVacuously ==
    cert.calls > 0 =>
        /\ CountValues(sdom_result.sdom, is_button) = 0 => CheckOf("A11Y-003").passed
        /\ CountValues(sdom_result.sdom, is_link) = 0 => CheckOf("A11Y-002").passed
        /\ CountValues(sdom_result.sdom, is_form_input) = 0 => CheckOf("A11Y-004").passed
        /\ sdom_result.sdom.interactables = <<>> =>
               CheckOf("A11Y-001").passed /\ CheckOf("INTEROP-002").passed

\* C14: certifying the same, unchanged document again yields the same score,
\* level and list of check results as before, and leaves the document (index,
\* category lists, state graph) as it was
C14_CertifyRepeatable ==
    [][(cert.calls > 0 /\ cert'.calls = cert.calls + 1) =>
           /\ cert'.result.score = cert.result.score
           /\ cert'.result.level = cert.result.level
           /\ cert'.result.checks = cert.result.checks
           /\ sdom_result' = sdom_result]_vars

(***************************************************************************)
(* The MCP server's answers.                                               *)
(***************************************************************************)
\* the last line read was a tools/call request for one of the reading tools
ReadCall ==
    /\ line.kind = "request"
    /\ line.method = "tools/call"
    /\ line.params.some
    /\ line.params.name \in ReadTools

LoadedIds == {LoadedNodes[k].id : k \in DOMAIN LoadedNodes}

\* the last request looked up an id or a landmark that the loaded document lacks
AbsentLookup ==
    /\ ReadCall
    /\ document.some
    /\ \/ /\ line.params.name \in {"semantic_query", "semantic_state_graph"}
          /\ line.params.arguments.id # None
          /\ line.params.arguments.id \notin LoadedIds
       \/ /\ line.params.name = "semantic_navigate"
          /\ line.params.arguments.landmark # None
          /\ \A k \in DOMAIN LoadedNodes :
                 /\ ToLowercase(LoadedNodes[k].role) # ToLowercase(line.params.arguments.landmark)
                 /\ ToLowercase(LoadedNodes[k].id) # ToLowercase(line.params.arguments.landmark)

NotFoundMessages == {"Element not found", "Landmark not found", "State node not found"}

\* C15: a reading tool answers with the error "No document loaded" exactly
\* when no parse_html call has succeeded before it, and with a document loaded
\* a lookup of an id or landmark the document lacks gets a "not found" result,
\* which is not an error
C15_NoDocumentIffNoneLoaded ==
    ReadCall =>
        /\ reply.some
        /\ reply.id = line.id
        /\ (reply.result = NoDocumentLoaded) <=> (loaded_call = 0)
        /\ AbsentLookup =>
              /\ reply.result.code = 0
              /\ reply.result.message \in NotFoundMessages
              /\ reply.result # NoDocumentLoaded

C15_Witness ==
    /\ AbsentLookup
    /\ loaded_call > 0
    /\ line.params.name = "semantic_query"
    /\ reply.result = ToolOk("Element not found", S_z)

\* the last line read was a request
RequestLine == line.kind = "request"

ToolCallLine == RequestLine /\ line.method = "tools/call"

KnownMethods ==
    {"initialize", "initialized", "tools/list", "tools/call", "resources/list",
     "resources/read", "prompts/list", "shutdown"}

KnownTools == ReadTools \cup {"parse_html"}

\* the last request lacks its params or a required argument of its tool
MissingArgument ==
    \/ /\ ToolCallLine
       /\ \/ ~line.params.some
          \/ line.params.name = NoName
          \/ line.params.name = "parse_html" /\ ~line.params.arguments.html.some
          \/ line.params.name = "semantic_query" /\ line.params.arguments.id = None
          \/ line.params.name = "semantic_navigate" /\ line.params.arguments.landmark = None
    \/ /\ RequestLine
       /\ line.method = "resources/read"
       /\ (~line.params.some \/ line.params.name = NoName)

\* the code of the error the last line was answered with; 0 when it was
\* answered with a result, or not at all
ReplyCode == IF reply.some THEN reply.result.code ELSE 0

\* the codes the answer to the last line carries
CodesAsDocumented ==
    /\ (RequestLine /\ line.method \notin KnownMethods) => ReplyCode = -32601
    /\ (ToolCallLine /\ line.params.some /\ line.params.name # NoName
          /\ line.params.name \notin KnownTools) => ReplyCode = -32601
    /\ MissingArgument => ReplyCode = -32602
    /\ line.kind \in {"not_json", "not_utf8"} => ReplyCode = -32700

\* C16: the server answers every request without terminating: an unknown
\* method or tool gets -32601, missing params or a missing required argument
\* -32602, a line that is not valid JSON-RPC -32700, every parsed request but
\* the notification `initialized` gets one response carrying its id, and the
\* server keeps reading
C16_EveryRequestAnswered ==
    /\ running
    /\ CodesAsDocumented
    /\ (RequestLine /\ line.method # "initialized") => (reply.some /\ reply.id = line.id)
    /\ (RequestLine /\ line.method = "initialized") => ~reply.some

\* the parse_html request whose html has an element with role="abcé" is not
\* answered
C16_SplitRoleAnswered ==
    (/\ ToolCallLine
     /\ line.params.some
     /\ line.params.name = "parse_html"
     /\ line.params.arguments.html = SomeHtml([has_body |-> TRUE, elems |-> SplitRoleElems]))
    => (running /\ reply.some)

(***************************************************************************)
(* Roles.                                                                  *)
(***************************************************************************)
DomParsed == sdom_result.called /\ sdom_result.ok

DomIndex == sdom_result.sdom.index

\* C17: every element that becomes a node gets exactly one role, and the
\* value of an explicit role attribute wins over the element's tag
C17_RoleAttributeWins ==
    DomParsed =>
        /\ \A id \in DOMAIN DomIndex :
               sdom_input.elems[DomIndex[id].src].role # None
                   => role_to_string_lowercase(DomIndex[id].role)
                          = sdom_input.elems[DomIndex[id].src].role
        /\ \A a, b \in DOMAIN DomIndex :
               DomIndex[a].src = DomIndex[b].src => DomIndex[a].role = DomIndex[b].role

\* the tags of infer_role's table
RoleTableTags ==
    {"button", "a", "input", "textarea", "select", "nav", "main", "header", "footer",
     "aside", "form", "h1", "h2", "h3", "h4", "h5", "h6", "ul", "ol", "li", "table",
     "tr", "td", "th", "img", "dialog", "menu", "article", "section"}

\* the tree-building parser follows the priority: role attribute, agent-role
\* attribute, tag table, generic
CoreRoleByPriority ==
    document.some =>
        \A k \in DOMAIN LoadedNodes :
            /\ Elem(loaded_html, LoadedNodes[k].src).role # None
                   => LoadedNodes[k].role = Elem(loaded_html, LoadedNodes[k].src).role
            /\ (/\ Elem(loaded_html, LoadedNodes[k].src).role = None
                /\ Elem(loaded_html, LoadedNodes[k].src).agent_role # None)
                   => LoadedNodes[k].role = Elem(loaded_html, LoadedNodes[k].src).agent_role
            /\ (/\ Elem(loaded_html, LoadedNodes[k].src).role = None
                /\ Elem(loaded_html, LoadedNodes[k].src).agent_role = None
                /\ Elem(loaded_html, LoadedNodes[k].src).tag \notin RoleTableTags)
                   => LoadedNodes[k].role = S_generic

(***************************************************************************)
(* The navigation graph of a parsed SemanticDOM.                           *)
(***************************************************************************)
DomGraph == sdom_result.sdom.state_graph

\* the interactable nodes whose href begins with "/" or "#"
InternalLinks ==
    {id \in Range(sdom_result.sdom.interactables) :
        /\ id \in DOMAIN DomIndex
        /\ DomIndex[id].href # None
        /\ \/ StartsWith(DomIndex[id].href, <<"/">>)
           \/ StartsWith(DomIndex[id].href, <<"#">>)}

\* the states of the graph made for this target
TargetStates(href) == {k \in DOMAIN DomGraph.states : DomGraph.states[k].url_pattern = href}

GraphBuilt == DomParsed /\ sdom_config.include_state_graph

\* C18: for every interactable node whose target begins with "/" or "#" the
\* graph has a state for the target and a transition from the initial state
\* to it that the node's id triggers; distinct targets have distinct states
\* and links to one target share one state
C18_EveryLinkHasTransition ==
    GraphBuilt =>
        /\ \A id \in InternalLinks :
               \E k \in TargetStates(DomIndex[id].href) :
                   \E t \in Range(DomGraph.transitions) :
                       /\ t.from = DomGraph.initial_state
                       /\ t.to = DomGraph.states[k].id
                       /\ t.trigger = id
        /\ \A a, b \in InternalLinks :
               /\ DomIndex[a].href = DomIndex[b].href
                      => Cardinality(TargetStates(DomIndex[a].href)) = 1
               /\ DomIndex[a].href # DomIndex[b].href
                      => TargetStates(DomIndex[a].href) # TargetStates(DomIndex[b].href)

\* the part of C18 on the states alone: each target of an internal link has
\* one state of its own
C18_TargetsHaveOwnStates ==
    GraphBuilt =>
        \A a \in InternalLinks : Cardinality(TargetStates(DomIndex[a].href)) = 1

\* the part of C18 on links to one target: each of them triggers a transition
C18_SharedTargetEveryTrigger ==
    (GraphBuilt /\ \A a, b \in InternalLinks : DomIndex[a].href = DomIndex[b].href)
        => \A id \in InternalLinks :
               \E t \in Range(DomGraph.transitions) : t.trigger = id

(***************************************************************************)
(* Excluded elements and depth.                                            *)
(***************************************************************************)
\* element a of the input is a proper ancestor of element i
IsAncestor(html, a, i) == a < i /\ SubtreeEnd(html, a) >= i

\* element i, or an element it lies in, has an excluded tag
InExcluded(html, i, exclude_tags) ==
    \/ html.elems[i].tag \in exclude_tags
    \/ \E a \in DOMAIN html.elems :
           IsAncestor(html, a, i) /\ html.elems[a].tag \in exclude_tags

DomListed ==
    Range(sdom_result.sdom.landmarks) \cup Range(sdom_result.sdom.interactables)
        \cup Range(sdom_result.sdom.headings)

\* C19: no node of the result and no entry of the landmark, interactable or
\* heading lists derives from an element with an excluded tag or from a
\* descendant of one
C19_ExcludedSubtreeSkipped ==
    DomParsed =>
        /\ \A id \in DOMAIN DomIndex :
               ~InExcluded(sdom_input, DomIndex[id].src, sdom_config.exclude_tags)
        /\ \A id \in DomListed :
               /\ id \in DOMAIN DomIndex
               /\ ~InExcluded(sdom_input, DomIndex[id].src, sdom_config.exclude_tags)

\* the part of C19 on the excluded elements themselves
ExcludedElementsSkipped ==
    DomParsed =>
        \A id \in DOMAIN DomIndex :
            sdom_input.elems[DomIndex[id].src].tag \notin sdom_config.exclude_tags

\* C19 under the default configuration
C19_DefaultExcludedSubtreeSkipped ==
    sdom_config.exclude_tags = Config_default.exclude_tags => C19_ExcludedSubtreeSkipped

\* C20: no node of a built document derives from an element that lies deeper
\* than max_depth levels below the outermost one (an element right below
\* <body> has depth 1 in the model); what lies deeper is dropped
C20_DepthBounded ==
    DomParsed =>
        \A id \in DOMAIN DomIndex :
            sdom_input.elems[DomIndex[id].src].depth - 1 <= sdom_config.max_depth

(***************************************************************************)
(* The tree of the tree-building parser.                                   *)
(***************************************************************************)
\* the element that element i is a child of; 0 is <body>
ParentElement(html, i) ==
    IF html.elems[i].depth = 1 THEN 0
    ELSE CHOOSE a \in 1..(i - 1) :
             /\ html.elems[a].depth = html.elems[i].depth - 1
             /\ \A b \in (a + 1)..(i - 1) : html.elems[b].depth >= html.elems[i].depth

\* the elements of the loaded input that nodes of the loaded document were built from
NodeSources == {LoadedNodes[k].src : k \in DOMAIN LoadedNodes}

\* the element whose node holds the node of element i as a child
TreeParentSource(i) ==
    CHOOSE a \in NodeSources :
        \E k \in DOMAIN LoadedNodes :
            /\ LoadedNodes[k].src = a
            /\ \E c \in DOMAIN LoadedNodes[k].children : LoadedNodes[k].children[c].src = i

IsWrapper(html, i) == i > 0 /\ ~is_semantic_element(html.elems[i])

\* where the claim puts the node of element i: below its parent element, or,
\* when that is a non-semantic wrapper, below the wrapper's parent
HoistedTo(html, i) ==
    IF IsWrapper(html, ParentElement(html, i))
    THEN ParentElement(html, ParentElement(html, i))
    ELSE ParentElement(html, i)

\* C21: a non-semantic child never becomes a node; a semantic element becomes
\* a node exactly when its parent is a node or its parent is a non-semantic
\* child of a node, and then it is a child of that node (the nearest semantic
\* ancestor), the children standing in document order; a semantic element
\* below two consecutive non-semantic wrappers is not in the tree
C21_OneLevelHoisting ==
    document.some =>
        /\ 0 \in NodeSources
        /\ \A i \in DOMAIN loaded_html.elems :
               /\ (i \in NodeSources) <=>
                      /\ is_semantic_element(loaded_html.elems[i])
                      /\ HoistedTo(loaded_html, i) \in NodeSources
                      /\ ~IsWrapper(loaded_html, HoistedTo(loaded_html, i))
               /\ i \in NodeSources => TreeParentSource(i) = HoistedTo(loaded_html, i)
        /\ \A k, j \in DOMAIN LoadedNodes :
               LoadedNodes[k].src = LoadedNodes[j].src => k = j
        /\ \A k \in DOMAIN LoadedNodes :
               \A c, d \in DOMAIN LoadedNodes[k].children :
                   c < d => LoadedNodes[k].children[c].src < LoadedNodes[k].children[d].src

\* the document with a button below one wrapper, which is hoisted to the nav,
\* and a button below two, which is not in the tree
C21_Witness ==
    /\ document.some
    /\ loaded_html.elems = WrapperElems
    /\ NodeSources = {0, 1, 3, 6}
    /\ TreeParentSource(3) = 1

(***************************************************************************)
(* Labels.                                                                 *)
(***************************************************************************)
\* the chain of the claim: the first present value of aria-label, agent-label,
\* title, the trimmed text of at most 100 characters, alt, placeholder
LabelByChain(el, text) ==
    IF el.aria_label # None THEN el.aria_label
    ELSE IF el.agent_label # None THEN el.agent_label
    ELSE IF el.title # None THEN el.title
    ELSE IF text # <<>> /\ Len(text) <= 100 THEN text
    ELSE IF el.alt # None THEN el.alt
    ELSE IF el.placeholder # None THEN el.placeholder
    ELSE <<>>

\* C22: the label of a node is the first present value of the chain
\* aria-label, agent-label, title, trimmed text content of at most 100
\* characters, alt, placeholder, and else the empty text
C22_LabelChain ==
    document.some =>
        \A k \in DOMAIN LoadedNodes :
            LoadedNodes[k].label
                = LabelByChain(Elem(loaded_html, LoadedNodes[k].src),
                               Trim(TextContent(loaded_html, LoadedNodes[k].src)))

\* the same chain in the selector-based parser
DomLabelChain ==
    DomParsed =>
        \A id \in DOMAIN DomIndex :
            DomIndex[id].label
                = LabelByChain(sdom_input.elems[DomIndex[id].src],
                               Trim(TextContent(sdom_input, DomIndex[id].src)))

(***************************************************************************)
(* Intents.                                                                *)
(***************************************************************************)
\* the first keyword group of a lower-cased label in the order submit/send,
\* cancel/close, delete/remove, add/create, save, search
FirstGroup(text) ==
    IF Contains(text, S_submit) \/ Contains(text, S_send) THEN "submit"
    ELSE IF Contains(text, S_cancel) \/ Contains(text, S_close) THEN "cancel"
    ELSE IF Contains(text, S_delete) \/ Contains(text, S_remove) THEN "delete"
    ELSE IF Contains(text, S_add) \/ Contains(text, S_create) THEN "create"
    ELSE IF Contains(text, S_save) THEN "save"
    ELSE IF Contains(text, S_search) THEN "search"
    ELSE "none"

\* the SemanticIntent a keyword group stands for
GroupIntent(group) ==
    CASE group = "submit" -> "Submit"
      [] group = "cancel" -> "Close"
      [] group = "delete" -> "Delete"
      [] group = "create" -> "Create"
      [] group = "save" -> "Submit"
      [] group = "search" -> "Search"

\* the indexed nodes of role Button whose element has no data-intent
PlainButtons ==
    {id \in DOMAIN DomIndex :
        /\ DomIndex[id].role = "Button"
        /\ sdom_input.elems[DomIndex[id].src].data_intent = None}

\* C23: the intent of a button without an explicit intent is that of the
\* first keyword group, in the order submit/send, cancel/close,
\* delete/remove, add/create, save, search, that its lower-cased label holds
C23_FirstGroupWins ==
    DomParsed =>
        \A id \in PlainButtons :
            FirstGroup(ToLowercase(DomIndex[id].label)) # "none"
                => DomIndex[id].intent
                       = GroupIntent(FirstGroup(ToLowercase(DomIndex[id].label)))

\* the intent the tree parser computes for a button follows that order
CoreIntentByOrder ==
    document.some =>
        \A k \in DOMAIN LoadedNodes :
            LoadedNodes[k].role = S_button
                => LET group == FirstGroup(ToLowercase(LoadedNodes[k].label))
                       intent == infer_intent(Elem(loaded_html, LoadedNodes[k].src),
                                              S_button, LoadedNodes[k].label)
                   IN IF group = "none" THEN intent = None
                      ELSE intent = (CASE group = "submit" -> S_submit
                                       [] group = "cancel" -> S_cancel
                                       [] group = "delete" -> S_delete
                                       [] group = "create" -> S_create
                                       [] group = "save" -> S_save
                                       [] group = "search" -> S_search)

\* C24: a button without an explicit intent whose label holds no keyword has
\* the intent "action", a checkbox or radio has "toggle", a select has
\* "select", and the node built carries that intent
C24_DefaultIntentStored ==
    document.some =>
        \A k \in DOMAIN LoadedNodes :
            LET node == LoadedNodes[k]
                el == Elem(loaded_html, node.src)
            IN /\ (/\ node.role = S_button
                   /\ el.agent_intent = None
                   /\ FirstGroup(ToLowercase(node.label)) = "none")
                      => node.intent = S_action
               /\ node.role \in {S_checkbox, S_radio} => node.intent = S_toggle
               /\ el.tag = "select" => node.intent = S_select

\* the defaults of the selector-based parser
DomDefaultIntents ==
    DomParsed =>
        \A id \in DOMAIN DomIndex :
            sdom_input.elems[DomIndex[id].src].data_intent = None
                => /\ (/\ id \in PlainButtons
                       /\ sdom_input.elems[DomIndex[id].src].type # S_submit
                       /\ button_text_intent(ToLowercase(DomIndex[id].label)) = "Action")
                          => DomIndex[id].intent = "Action"
                   /\ DomIndex[id].role \in {"Checkbox", "Radio"}
                          => DomIndex[id].intent = "Toggle"
                   /\ DomIndex[id].role = "Select" => DomIndex[id].intent = "Select"

(***************************************************************************)
(* Generated ids.                                                          *)
(***************************************************************************)
\* the nodes of the loaded document whose id was generated from role and label
GeneratedIdNodes ==
    {k \in DOMAIN LoadedNodes :
        /\ Elem(loaded_html, LoadedNodes[k].src).agent_id = None
        /\ Elem(loaded_html, LoadedNodes[k].src).id = None}

\* C25: the sanitized label in a generated id is never empty: a label whose
\* characters are all dropped gives "unnamed"
C25_DescriptorNeverEmpty ==
    document.some =>
        \A k \in GeneratedIdNodes :
            /\ sanitize_label(LoadedNodes[k].label) # <<>>
            /\ LoadedNodes[k].id # role_to_prefix(LoadedNodes[k].role) \o <<"-">>

\* an empty label does give "unnamed"
EmptyLabelUnnamed ==
    document.some =>
        \A k \in GeneratedIdNodes :
            LoadedNodes[k].label = <<>>
                => StartsWith(LoadedNodes[k].id,
                              role_to_prefix(LoadedNodes[k].role) \o <<"-">> \o S_unnamed)

(***************************************************************************)
(* Local transition tables.                                                *)
(***************************************************************************)
FocusBlurPair ==
    <<StateTransition("idle", "focused", "focus"), StateTransition("focused", "idle", "blur")>>

\* the table of the claim for a lower-cased role
TableByRole(role) ==
    CASE role = S_button ->
             FocusBlurPair \o <<StateTransition("focused", "pressed", "mousedown"),
                                StateTransition("pressed", "focused", "mouseup")>>
      [] role \in {S_textbox, S_input} ->
             FocusBlurPair \o <<StateTransition("focused", "editing", "input")>>
      [] role = S_checkbox ->
             <<StateTransition("unchecked", "checked", "click"),
               StateTransition("checked", "unchecked", "click")>>
      [] OTHER -> FocusBlurPair

\* the nodes of the loaded document that are interactive or not idle
StatefulNodes ==
    {k \in DOMAIN LoadedNodes :
        SemanticNode_is_interactive(LoadedNodes[k]) \/ LoadedNodes[k].state # S_idle}

\* no two transitions of a table share their from-state and their trigger
TableDeterministic(table) ==
    \A a, b \in DOMAIN table :
        (table[a].from = table[b].from /\ table[a].trigger = table[b].trigger) => a = b

\* the entries of the state graph are those of the interactive or non-idle nodes
StateGraphEntries ==
    document.some =>
        /\ DOMAIN state_graph(document.doc) = {LoadedNodes[k].id : k \in StatefulNodes}
        /\ \A id \in DOMAIN state_graph(document.doc) :
               TableDeterministic(state_graph(document.doc)[id].transitions)

\* the entry of a node with a role of its own, or a focusable one, has the table
TablesAsClaimed(nodes) ==
    \A k \in nodes :
        (\/ SemanticNode_is_interactive(LoadedNodes[k])
         \/ ToLowercase(LoadedNodes[k].role) \in {S_button, S_textbox, S_input, S_checkbox})
            => state_graph(document.doc)[LoadedNodes[k].id].transitions
                   = TableByRole(ToLowercase(LoadedNodes[k].role))

\* C26: the state graph has an entry for exactly the interactive or non-idle
\* nodes; the table of an entry is that of its role (button, text input,
\* checkbox), every other focusable role has exactly the focus/blur pair, and
\* no table holds two transitions with the same from-state and trigger
C26_PerRoleTables ==
    document.some => StateGraphEntries /\ TablesAsClaimed(StatefulNodes)

\* the same without the nodes of role link
TablesButLinks ==
    document.some
        => TablesAsClaimed({k \in StatefulNodes : ToLowercase(LoadedNodes[k].role) # S_link})

(***************************************************************************)
(* The index and the category lists of SemanticDOM.                        *)
(***************************************************************************)
\* the ids of a list whose node was built from element i
ListedFor(list, i) ==
    {k \in DOMAIN list : list[k] \in DOMAIN DomIndex /\ DomIndex[list[k]].src = i}

\* C27: parse records each source element at most once: one index entry, and
\* at most one entry in each of the landmark, interactable and heading lists
C27_ElementRecordedOnce ==
    DomParsed =>
        \A i \in DOMAIN sdom_input.elems :
            /\ Cardinality({id \in DOMAIN DomIndex : DomIndex[id].src = i}) <= 1
            /\ Cardinality(ListedFor(sdom_result.sdom.landmarks, i)) <= 1
            /\ Cardinality(ListedFor(sdom_result.sdom.interactables, i)) <= 1
            /\ Cardinality(ListedFor(sdom_result.sdom.headings, i)) <= 1

\* an element with an id attribute is recorded once
IdentifiedRecordedOnce ==
    DomParsed =>
        \A i \in DOMAIN sdom_input.elems :
            sdom_input.elems[i].id # None
                => Cardinality({id \in DOMAIN DomIndex : DomIndex[id].src = i}) <= 1

\* a list holds keys of the index, each once, and is the list of the indexed
\* nodes whose role satisfies the predicate
ListAgrees(list, in_category(_)) ==
    /\ \A k \in DOMAIN list : list[k] \in DOMAIN DomIndex /\ in_category(DomIndex[list[k]].role)
    /\ \A j, k \in DOMAIN list : list[j] = list[k] => j = k
    /\ \A id \in DOMAIN DomIndex : in_category(DomIndex[id].role) => id \in Range(list)

IsHeading(role) == role = "Heading"

\* C28: after parse the category lists agree with the index: every listed id
\* is a key of the index, no id occurs twice in a list, the node of a listed id
\* has a role of the list's category, and every indexed node of such a role is
\* in the list
C28_ListsAgreeWithIndex ==
    DomParsed =>
        /\ ListAgrees(sdom_result.sdom.landmarks, is_landmark)
        /\ ListAgrees(sdom_result.sdom.interactables, is_interactable)
        /\ ListAgrees(sdom_result.sdom.headings, IsHeading)

\* a parse that filled the three lists and met an id a second time
C28_Witness ==
    /\ DomParsed
    /\ sdom_result.sdom.landmarks # <<>>
    /\ sdom_result.sdom.interactables # <<>>
    /\ \E i \in DOMAIN sdom_input.elems :
           /\ sdom_input.elems[i].id # None
           /\ Cardinality({m \in Range(SelectorMatches(sdom_input)) : m.elem = i}) > 1

\* a parse that filled the heading list
HeadingListed == DomParsed /\ sdom_result.sdom.headings # <<>>

(***************************************************************************)
(* The loaded document across parse_html requests.                         *)
(***************************************************************************)
\* the step reads a parse_html request
ParseHtmlStep ==
    /\ requests' = requests + 1
    /\ line'.kind = "request"
    /\ line'.method = "tools/call"
    /\ line'.params.some
    /\ line'.params.name = "parse_html"

\* the step reads a request for a reading tool
ReadStep ==
    /\ requests' = requests + 1
    /\ line'.kind = "request"
    /\ line'.method = "tools/call"
    /\ line'.params.some
    /\ line'.params.name \in ReadTools

\* the answer of the step is a result, not an error
Succeeded == reply'.some /\ reply'.result.code = 0

\* the texts of the nodes of a document
SerializedNodes(doc) ==
    {serialize_node_string(n) : n \in Range(collect_all_nodes(doc.root))}

\* what the two kinds of steps do to the loaded document
LoadedDocumentStep ==
    /\ (ParseHtmlStep /\ ~Succeeded) => document' = document
    /\ (ParseHtmlStep /\ Succeeded)
          => /\ line'.params.arguments.html.some
             /\ document' = SomeDocument(parse(line'.params.arguments.html.html,
                                               id_counters).doc)
    /\ ReadStep
          => /\ document' = document
             /\ (Succeeded /\ reply'.result.message = "node")
                   => reply'.result.payload \in SerializedNodes(document'.doc)

\* C29: a parse_html request that fails, by a parse error or a missing html
\* argument, leaves the loaded document as it was, and later reads are
\* answered from it; one that succeeds replaces the loaded document by the
\* document of its html, and reads return nodes of that document only
C29_FailedParseKeepsDocument == [][LoadedDocumentStep]_vars

\* a node of the document loaded first is returned after a parse_html failed
C29_Witness ==
    /\ running
    /\ document.some
    /\ loaded_call = 1
    /\ parse_calls = 2
    /\ ReadCall
    /\ line.params.name = "semantic_query"
    /\ reply.result.message = "node"

(***************************************************************************)
(* Totality of run_certification_checks.                                   *)
(***************************************************************************)
\* the last line asked for the parse of a text with a body whose roles are
\* ASCII, so that parse_element builds the tree and the checks run on it
ChecksRan ==
    /\ ToolCallLine
    /\ line.params.some
    /\ line.params.name = "parse_html"
    /\ line.params.arguments.html.some
    /\ line.params.arguments.html.html.has_body
    /\ \A e \in Range(line.params.arguments.html.html.elems) :
           e.role = None \/ ByteLen(e.role) = Len(e.role)

PassedChecks(c) == Len(SelectSeq(c.checks, LAMBDA k : k.passed))

\* the score and the level of the loaded document's certification
ScoreWellFormed ==
    document.some =>
        LET c == document.doc.agent_ready
        IN /\ Len(c.checks) = 5
           /\ c.score = Saturating((100 * PassedChecks(c)) \div 5, sum_deductions(c.failures))
           /\ c.score \in 0..100
           /\ c.level = from_score(c.score)

\* C30: run_certification_checks is total over every tree, with heading
\* levels of any value 0..255: it completes without arithmetic overflow in
\* the heading comparison and in the deduction sum, and returns the score
\* max(0, floor(100 * passed / 5) - deductions) in 0..100 with its level
C30_ChecksTotal ==
    /\ ChecksRan => running /\ reply.some /\ reply.result.code = 0
    /\ document.some => ~document.doc.agent_ready.overflowed
    /\ ScoreWellFormed

\* the checks complete on the trees without a heading of level 255
TotalBelowLastLevel ==
    (ChecksRan /\ line.params.arguments.html.html.elems # LastLevelElems)
        => running /\ reply.some /\ reply.result.code = 0

====
